---------------------------- MODULE Spec2Model ----------------------------
(***************************************************************************)
(* A model of the pinentry client of go-pinentry (package pinentry, v2):   *)
(* the Assuan line codec and the Client's exchanges with the pinentry      *)
(* process (NewClient, Close, Confirm, GetPIN, Message, ClearPassphrase).  *)
(*                                                                         *)
(* A []byte or a string is a sequence of byte values (0..255); the text a  *)
(* tuple stands for is given in the comment next to it.  The Process       *)
(* (Start, Write, ReadLine, Close) is the environment: every call of it    *)
(* is one step of the model, its outcome is chosen by the environment and  *)
(* it is recorded in log, the transport operations of the API call in      *)
(* progress (or of the last one, once it has returned).                    *)
(***************************************************************************)
EXTENDS Integers, Sequences, FiniteSets, TLC

(***************************************************************************)
(* Bounds of the model.                                                    *)
(***************************************************************************)
\* The most lines the helper sends within one API call that do not end the
\* read loop they are read in (blank, comment, data, status, inquiry).
MaxLoops == 2

(***************************************************************************)
(* Byte strings of the source.                                             *)
(***************************************************************************)
LF == 10                                                       \* '\n'
CR == 13                                                       \* '\r'
Percent == 37                                                  \* '%'
Hash == <<35>>                                                 \* "#"
OKPrefix == <<79, 75>>                                         \* "OK"
ERRPrefix == <<69, 82, 82, 32>>                                \* "ERR "
DPrefix == <<68, 32>>                                          \* "D "
BYE == <<66, 89, 69>>                                          \* "BYE"
GETPIN == <<71, 69, 84, 80, 73, 78>>                           \* "GETPIN"
CONFIRM == <<67, 79, 78, 70, 73, 82, 77>>                      \* "CONFIRM"
MESSAGE == <<77, 69, 83, 83, 65, 71, 69>>                      \* "MESSAGE"
CLEARPASSPHRASE ==
    <<67, 76, 69, 65, 82, 80, 65, 83, 83, 80, 72, 82, 65, 83, 69, 32>>
                                                               \* "CLEARPASSPHRASE "
END == <<69, 78, 68>>                                          \* "END"
CAN == <<67, 65, 78>>                                          \* "CAN"
SETDESC == <<83, 69, 84, 68, 69, 83, 67, 32>>                  \* "SETDESC "
SETTIMEOUT == <<83, 69, 84, 84, 73, 77, 69, 79, 85, 84, 32>>   \* "SETTIMEOUT "
SETQUALITYBAR ==
    <<83, 69, 84, 81, 85, 65, 76, 73, 84, 89, 66, 65, 82>>     \* "SETQUALITYBAR"
NotConfirmed ==
    <<65, 83, 83, 85, 65, 78, 95, 78, 111, 116, 95, 67,
      111, 110, 102, 105, 114, 109, 101, 100>>                 \* "ASSUAN_Not_Confirmed"
StatusFromCache ==
    <<83, 32, 80, 65, 83, 83, 87, 79, 82, 68, 95, 70, 82,
      79, 77, 95, 67, 65, 67, 72, 69>>                         \* "S PASSWORD_FROM_CACHE"
StatusRepeated ==
    <<83, 32, 80, 73, 78, 95, 82, 69, 80, 69, 65, 84, 69, 68>> \* "S PIN_REPEATED"
InquireQuality ==
    <<73, 78, 81, 85, 73, 82, 69, 32, 81, 85, 65, 76, 73, 84,
      89, 32>>                                                 \* "INQUIRE QUALITY "
AssuanErrorCodeCancelled == 83886179

(***************************************************************************)
(* The standard library functions the source calls, on byte sequences.     *)
(***************************************************************************)
\* bytes.HasPrefix
HasPrefix(s, prefix) ==
    /\ Len(s) >= Len(prefix)
    /\ SubSeq(s, 1, Len(prefix)) = prefix

\* unicode.IsSpace on an ASCII byte: '\t', '\n', '\v', '\f', '\r', ' '
IsSpace(b) == b \in {9, 10, 11, 12, 13, 32}

\* bytes.TrimSpace: the leading and trailing white space removed
RECURSIVE TrimLeft(_)
TrimLeft(s) ==
    IF s # <<>> /\ IsSpace(Head(s)) THEN TrimLeft(Tail(s)) ELSE s

RECURSIVE TrimRight(_)
TrimRight(s) ==
    IF s # <<>> /\ IsSpace(s[Len(s)])
    THEN TrimRight(SubSeq(s, 1, Len(s) - 1))
    ELSE s

TrimSpace(s) == TrimRight(TrimLeft(s))

IsDigit(b) == 48 <= b /\ b <= 57

\* The decimal digits of a natural number, as fmt's %d writes them.
RECURSIVE FormatNat(_)
FormatNat(n) ==
    IF n < 10 THEN <<48 + n>> ELSE FormatNat(n \div 10) \o <<48 + (n % 10)>>

\* fmt.Sprintf("%d", n)
FormatInt(n) == IF n < 0 THEN <<45>> \o FormatNat(0 - n) ELSE FormatNat(n)

\* An int that strconv.Atoi returns is held as its decimal digits, without
\* leading zeros: every value of a 64-bit int can be held that way.
\* The largest int, 1<<63 - 1: "9223372036854775807"
MaxInt64 ==
    <<57, 50, 50, 51, 51, 55, 50, 48, 51, 54, 56, 53, 52, 55, 55, 53, 56, 48, 55>>

RECURSIVE StripLeadingZeros(_)
StripLeadingZeros(s) ==
    IF Len(s) > 1 /\ Head(s) = 48 THEN StripLeadingZeros(Tail(s)) ELSE s

\* The number with the digits a is greater than the number with the digits
\* b (neither has leading zeros).
DigitsGreater(a, b) ==
    \/ Len(a) > Len(b)
    \/ /\ Len(a) = Len(b)
       /\ \E k \in 1..Len(a) :
             /\ a[k] > b[k]
             /\ \A j \in 1..(k - 1) : a[j] = b[j]

\* strconv.Atoi on a string of decimal digits, its error dropped: the number
\* that s writes, or the largest int when that number is out of range.
Atoi(s) ==
    IF DigitsGreater(StripLeadingZeros(s), MaxInt64)
    THEN MaxInt64
    ELSE StripLeadingZeros(s)

(***************************************************************************)
(* The codec.                                                              *)
(***************************************************************************)
\* escapeByte without the case '%'.
escapeByteNoPercent(b) ==
    CASE b = LF      -> <<37, 48, 65>>
      [] b = CR      -> <<37, 48, 68>>
      [] OTHER       -> <<b>>

\* escapeByte leaving a carriage return as it is.
escapeByteNoCR(b) ==
    CASE b = LF      -> <<37, 48, 65>>
      [] b = Percent -> <<37, 50, 53>>
      [] OTHER       -> <<b>>

escapeByte(b) ==
    CASE b = LF     -> <<37, 48, 65>>      \* '%', '0', 'A'
      [] b = CR      -> <<37, 48, 68>>      \* '%', '0', 'D'
      [] b = Percent -> <<37, 50, 53>>      \* '%', '2', '5'
      [] OTHER       -> <<b>>

RECURSIVE escape(_)
escape(s) ==
    IF s = <<>> THEN <<>> ELSE escapeByte(Head(s)) \o escape(Tail(s))

isUppercaseHexDigit(c) ==
    \/ (48 <= c /\ c <= 57)                 \* '0' <= c && c <= '9'
    \/ (65 <= c /\ c <= 70)                 \* 'A' <= c && c <= 'F'

uppercaseHexDigitValue(c) ==
    CASE 48 <= c /\ c <= 57 -> c - 48
      [] 65 <= c /\ c <= 70 -> c - 65 + 10
      [] OTHER              -> 0

\* unescapeFrom with the test i < len(data)-3: an escape that ends the data
\* is copied.
RECURSIVE unescapeFromShort(_, _)
unescapeFromShort(data, i) ==
    IF ~(i - 1 < Len(data)) THEN <<>>
    ELSE IF /\ i - 1 < Len(data) - 3
            /\ data[i] = Percent
            /\ isUppercaseHexDigit(data[i + 1])
            /\ isUppercaseHexDigit(data[i + 2])
         THEN <<((uppercaseHexDigitValue(data[i + 1]) * 16)
                  + uppercaseHexDigitValue(data[i + 2])) % 256>>
              \o unescapeFromShort(data, i + 3)
         ELSE <<data[i]>> \o unescapeFromShort(data, i + 1)

\* The loop of unescape from index i (1-based: i-1 is the source's i).
RECURSIVE unescapeFrom(_, _)
unescapeFrom(data, i) ==
    IF ~(i - 1 < Len(data)) THEN <<>>
    ELSE IF /\ i - 1 < Len(data) - 2
            /\ data[i] = Percent
            /\ isUppercaseHexDigit(data[i + 1])
            /\ isUppercaseHexDigit(data[i + 2])
         THEN <<((uppercaseHexDigitValue(data[i + 1]) * 16)
                  + uppercaseHexDigitValue(data[i + 2])) % 256>>
              \o unescapeFrom(data, i + 3)
         ELSE <<data[i]>> \o unescapeFrom(data, i + 1)

unescape(data) == unescapeFrom(data, 1)

getPIN(data) == unescape(data)

isBlank(line) == Len(TrimSpace(line)) = 0

isComment(line) == HasPrefix(line, Hash)

isData(line) == HasPrefix(line, DPrefix)

isError(line) == HasPrefix(line, ERRPrefix)

\* isOK finding OK anywhere in the line.
isOKAnywhere(line) ==
    \E k \in 1..(Len(line) - 1) : SubSeq(line, k, k + 1) = OKPrefix

isOK(line) == HasPrefix(line, OKPrefix)

(***************************************************************************)
(* Errors.  An error value is a record with a kind: "nil" (no error),      *)
(* "transport" (an error the Process returned, named by the operation),    *)
(* "assuan" (an AssuanError), "unexpected" (UnexpectedResponseError) or    *)
(* "combined" (the errors combineErrors put together, in order).           *)
(***************************************************************************)
NoError == [kind |-> "nil"]

TransportError(op) == [kind |-> "transport", op |-> op]

AssuanError(code, description) ==
    [kind |-> "assuan", Code |-> code, Description |-> description]

newUnexpectedResponseError(line) == [kind |-> "unexpected", Line |-> line]

\* The length of the longest run of decimal digits that starts at s[i].
RECURSIVE DigitRun(_, _)
DigitRun(s, i) ==
    IF i <= Len(s) /\ IsDigit(s[i]) THEN 1 + DigitRun(s, i + 1) ELSE 0

\* errorRx on a line: "ERR ", one or more digits, a space, any bytes to the
\* end (the regexp's dot matches every byte but the line feed).  Whether the
\* line matches and, when it does, the two submatches.
errorRxMatch(line) ==
    LET n == DigitRun(line, 5)
        rest == SubSeq(line, 5 + n + 1, Len(line))
    IN  IF /\ HasPrefix(line, ERRPrefix)
           /\ n >= 1
           /\ Len(line) >= 5 + n
           /\ line[5 + n] = 32
           /\ \A k \in 1..Len(rest) : rest[k] # LF
        THEN [match |-> TRUE, digits |-> SubSeq(line, 5, 4 + n), rest |-> rest]
        ELSE [match |-> FALSE, digits |-> <<>>, rest |-> <<>>]

newError(line) ==
    LET m == errorRxMatch(line)
    IN  IF ~m.match THEN newUnexpectedResponseError(line)
        ELSE AssuanError(Atoi(m.digits), m.rest)

\* errors.As(err, &assuanError): the first AssuanError in err's tree.
RECURSIVE AsAssuanError(_)
AsAssuanError(err) ==
    CASE err.kind = "assuan"   -> <<err>>
      [] err.kind = "combined" ->
            IF AsAssuanError(err.errs[1]) # <<>>
            THEN AsAssuanError(err.errs[1])
            ELSE AsAssuanError(err.errs[2])
      [] OTHER                 -> <<>>

\* IsCancelled without the comparison of the code.
IsCancelledAnyCode(err) == AsAssuanError(err) # <<>>

IsCancelled(err) ==
    LET found == AsAssuanError(err)
    IN  IF found = <<>> THEN FALSE
        ELSE found[1].Code = FormatNat(AssuanErrorCodeCancelled)

\* combineErrors: nil when both are nil, the one that is not nil when only
\* one is, and otherwise one error that reports both, in order.
combineErrors(e1, e2) ==
    CASE e1.kind = "nil" -> e2
      [] e2.kind = "nil" -> e1
      [] OTHER           -> [kind |-> "combined", errs |-> <<e1, e2>>]

(***************************************************************************)
(* The inputs of the model: the option lists given to NewClient, the lines *)
(* the helper sends, the results of a caller's quality function and the    *)
(* arguments of Confirm and ClearPassphrase.                               *)
(***************************************************************************)
WithCommand(command) == [option |-> "WithCommand", arg |-> command]

WithDesc(desc) == [option |-> "WithDesc", arg |-> desc]

\* time.Second, in nanoseconds, the unit of a time.Duration
Second == 1000000000

\* timeoutSeconds rounding to the nearest second.
timeoutSecondsRounded(timeout) ==
    IF timeout >= 0
    THEN (timeout + 500000000) \div 1000000000
    ELSE 0 - ((500000000 - timeout) \div 1000000000)

\* timeout/time.Second: Go's integer division, which truncates toward zero
timeoutSeconds(timeout) ==
    IF timeout >= 0
    THEN timeout \div Second
    ELSE 0 - ((0 - timeout) \div Second)

WithTimeout(timeout) == [option |-> "WithTimeout", arg |-> timeout]

WithQualityBar == [option |-> "WithQualityBar", arg |-> <<>>]

WithArgs(args) == [option |-> "WithArgs", arg |-> args]

WithBinaryName(binaryName) == [option |-> "WithBinaryName", arg |-> binaryName]

WithDebug == [option |-> "WithDebug", arg |-> <<>>]

WithNoGlobalGrab == [option |-> "WithNoGlobalGrab", arg |-> <<>>]

NilOption == [option |-> "nil", arg |-> <<>>]

DebugArg == <<45, 45, 100, 101, 98, 117, 103>>                 \* "--debug"

NoGlobalGrabArg ==
    <<45, 45, 110, 111, 45, 103, 108, 111, 98, 97, 108, 45,
      103, 114, 97, 98>>                                       \* "--no-global-grab"

PinentryA == <<112, 105, 110, 101, 110, 116, 114, 121, 45, 97>> \* "pinentry-a"

PinentryB == <<112, 105, 110, 101, 110, 116, 114, 121, 45, 98>> \* "pinentry-b"

SetPromptP == <<83, 69, 84, 80, 82, 79, 77, 80, 84, 32, 112>>  \* "SETPROMPT p"

\* WithDesc("a\n"), WithArgs({"-a", "-b"}), WithArgs({"-a"})
OptionLists ==
    { <<>>,
      <<WithBinaryName(PinentryA), WithDesc(<<97, 10>>), NilOption,
        WithArgs(<< <<45, 97>>, <<45, 98>> >>), WithQualityBar, WithDebug,
        WithBinaryName(PinentryB), WithCommand(SetPromptP), WithNoGlobalGrab>>,
      <<WithNoGlobalGrab, WithArgs(<< <<45, 97>> >>), WithDebug>> }

\* Lines that readLine skips.
SkipLines ==
    { <<>>,                                                    \* ""
      <<35, 99>> }                                             \* "#c"

\* More of them, sent in answer to CONFIRM, MESSAGE and CLEARPASSPHRASE.
BlankLines ==
    { <<32>>,                                                  \* " "
      <<9, 32>> }                                              \* "\t "

\* Replies the helper sends to any command.
ReplyLines ==
    { <<79, 75>>,                                              \* "OK"
      <<79, 75, 32, 104, 105>>,                                \* "OK hi"
      <<69, 82, 82, 32, 56, 51, 56, 56, 54, 49, 55, 57, 32,
        99>>,                                                  \* "ERR 83886179 c"
      <<69, 82, 82, 32, 53, 32, 120>>,                         \* "ERR 5 x"
      <<69, 82, 82, 32, 120>>,                                 \* "ERR x"
      <<69, 82, 82, 32, 57, 50, 50, 51, 51, 55, 50, 48, 51, 54, 56, 53, 52,
        55, 55, 53, 56, 48, 56, 32, 120>>,           \* "ERR 9223372036854775808 x"
      NotConfirmed,
      <<119, 104, 97, 116>> }                                  \* "what"

\* Lines the helper sends only while it answers GETPIN.
GetPINLines ==
    { <<68, 32, 97, 98, 99>>,                                  \* "D abc"
      <<68, 32, 37, 50, 53>>,                                  \* "D %25"
      StatusFromCache,
      StatusRepeated,
      InquireQuality \o <<97, 37, 52, 49>>,                    \* "INQUIRE QUALITY a%41"
      <<73, 78, 81, 85, 73, 82, 69, 32, 79, 84, 72, 69, 82,
        32, 97>>,                                              \* "INQUIRE OTHER a"
      SubSeq(InquireQuality, 1, 15),                           \* "INQUIRE QUALITY"
      <<69, 82, 82, 32, 56, 51, 56, 56, 54, 49, 55, 57>> }     \* "ERR 83886179"

\* The lines process.ReadLine may return together with an error: none (the
\* stream ended), or what it had read when the error came.
FailedReadLines ==
    { <<>>,                                                    \* ""
      <<79, 75>> }                                             \* "OK"

\* What process.ReadLine returns: a line and no error, or an error.
Outcomes(lines) ==
    {[line |-> l, ok |-> TRUE] : l \in lines}
    \cup {[line |-> l, ok |-> FALSE] : l \in FailedReadLines}

ReadOutcomes == Outcomes(SkipLines \cup BlankLines \cup ReplyLines)

\* Replies the helper sends to the greeting, a starting command and BYE.
HandshakeLines ==
    { <<79, 75, 32, 104, 105>>,                                \* "OK hi"
      <<69, 82, 82, 32, 53, 32, 120>>,                         \* "ERR 5 x"
      <<119, 104, 97, 116>> }                                  \* "what"

HandshakeOutcomes == Outcomes(SkipLines \cup HandshakeLines)

GetPINReadOutcomes == Outcomes(SkipLines \cup ReplyLines \cup GetPINLines)

\* What a caller's quality function may return: a score and whether it is valid.
Scores == {-101, -100, 5, 100, 101}

QualityResults ==
    {[quality |-> s, ok |-> TRUE] : s \in Scores} \cup {[quality |-> 0, ok |-> FALSE]}

ConfirmOptions == {<<>>, <<120>>, <<120, 10>>}                  \* "", "x", "x\n"

CacheIDs == {<<105, 37>>}                                      \* "i%"

(***************************************************************************)
(* The state.                                                              *)
(*   pc       where the client is: "new" before NewClient, "ready" when a  *)
(*            client exists and no call is in progress, "failed" after a   *)
(*            failed NewClient, otherwise the transport call that is next  *)
(*   c        the Client: binaryName, args, commands, qualityFunc          *)
(*   log      the transport operations (and quality function calls) of the *)
(*            API call in progress or, at "ready" and "failed", of the     *)
(*            last one                                                     *)
(*   ret      what the last API call returned ("" while one is running)    *)
(*   arg      the argument of that call: NewClient's options, Confirm's    *)
(*            option, ClearPassphrase's cacheID                            *)
(*   caller   who called Close: "NewClient" (its deferred function) or     *)
(*            "api"                                                        *)
(*   err      NewClient's named result err                                 *)
(*   cerr     Close's named result err                                     *)
(*   cmdIdx, command   NewClient's loop over c.commands; the command line  *)
(*            Confirm, Message and ClearPassphrase build                   *)
(*   result   GetPIN's result                                              *)
(*   quality  GetPIN's quality, the score to write                         *)
(*   loops    lines read in this API call that did not end a read loop     *)
(*   previous a history variable, not state of the client: what the call   *)
(*            before the one of log and ret was, "Close", "GetPIN" when it *)
(*            was a GetPIN that returned a PIN or a flag, "" otherwise     *)
(***************************************************************************)
VARIABLES pc, c, log, ret, arg, caller, err, cerr, cmdIdx, command, result, quality,
          loops, previous

vars ==
    <<pc, c, log, ret, arg, caller, err, cerr, cmdIdx, command, result, quality, loops,
      previous>>

\* The entries of log.
EvStart(name, args, ok) == [op |-> "Start", data |-> <<name, args>>, ok |-> ok]

EvWrite(line, ok) == [op |-> "Write", data |-> line \o <<LF>>, ok |-> ok]

EvRead(r) == [op |-> "ReadLine", data |-> r.line, ok |-> r.ok]

EvClose(ok) == [op |-> "Close", data |-> <<>>, ok |-> ok]

EvQuality(pin, q) == [op |-> "qualityFunc", data |-> <<pin, q.quality>>, ok |-> q.ok]

NoReturn == [op |-> "", val |-> <<>>, err |-> NoError]

Return(op, val, e) == [op |-> op, val |-> val, err |-> e]

GetPINResult(pin, fromCache, repeated) ==
    [PIN |-> pin, PasswordFromCache |-> fromCache, PINRepeated |-> repeated]

ZeroResult == GetPINResult(<<>>, FALSE, FALSE)

(***************************************************************************)
(* Options and construction.                                               *)
(***************************************************************************)
PinentryName == <<112, 105, 110, 101, 110, 116, 114, 121>>     \* "pinentry"

DefaultClient ==
    [binaryName |-> PinentryName, args |-> <<>>, commands |-> <<>>,
     qualityFunc |-> "default"]

\* ApplyOption with WithBinaryName keeping a name that was set before.
ApplyOptionFirstName(cl, o) ==
    CASE o.option = "WithArgs" ->
            [cl EXCEPT !.args = @ \o o.arg]
      [] o.option = "WithBinaryName" ->
            IF cl.binaryName = <<112, 105, 110, 101, 110, 116, 114, 121>>
            THEN [cl EXCEPT !.binaryName = o.arg]
            ELSE cl
      [] o.option = "WithDebug" ->
            [cl EXCEPT !.args = Append(@, DebugArg)]
      [] o.option = "WithNoGlobalGrab" ->
            [cl EXCEPT !.args = Append(@, NoGlobalGrabArg)]
      [] o.option = "WithCommand" ->
            [cl EXCEPT !.commands = Append(@, o.arg)]
      [] o.option = "WithDesc" ->
            [cl EXCEPT !.commands = Append(@, SETDESC \o escape(o.arg))]
      [] o.option = "WithQualityBar" ->
            [cl EXCEPT !.commands = Append(@, SETQUALITYBAR),
                       !.qualityFunc = "custom"]
      [] o.option = "WithTimeout" ->
            [cl EXCEPT !.commands =
                          Append(@, SETTIMEOUT \o FormatInt(timeoutSeconds(o.arg)))]
      [] OTHER -> cl

\* One ClientOption applied to the client cl.
ApplyOption(cl, o) ==
    CASE o.option = "WithArgs" ->
            [cl EXCEPT !.args = @ \o o.arg]
      [] o.option = "WithBinaryName" ->
            [cl EXCEPT !.binaryName = o.arg]
      [] o.option = "WithDebug" ->
            [cl EXCEPT !.args = Append(@, DebugArg)]
      [] o.option = "WithNoGlobalGrab" ->
            [cl EXCEPT !.args = Append(@, NoGlobalGrabArg)]
      [] o.option = "WithCommand" ->
            [cl EXCEPT !.commands = Append(@, o.arg)]
      [] o.option = "WithDesc" ->
            [cl EXCEPT !.commands = Append(@, SETDESC \o escape(o.arg))]
      [] o.option = "WithQualityBar" ->
            [cl EXCEPT !.commands = Append(@, SETQUALITYBAR),
                       !.qualityFunc = "custom"]
      [] o.option = "WithTimeout" ->
            [cl EXCEPT !.commands =
                          Append(@, SETTIMEOUT \o FormatInt(timeoutSeconds(o.arg)))]
      [] OTHER -> cl

\* for _, option := range options { if option != nil { option(c) } }
RECURSIVE ApplyOptions(_, _)
ApplyOptions(cl, options) ==
    IF options = <<>> THEN cl
    ELSE ApplyOptions(IF Head(options).option = "nil" THEN cl
                      ELSE ApplyOption(cl, Head(options)),
                      Tail(options))

\* qualityFunc with a default function that gives scores.
qualityFuncDefaultScores(cl) ==
    QualityResults

\* The results the quality function of the client may give.
qualityFunc(cl) ==
    IF cl.qualityFunc = "default"
    THEN {[quality |-> 0, ok |-> FALSE]}
    ELSE QualityResults

(***************************************************************************)
(* readLine and readOK.                                                    *)
(***************************************************************************)
\* readLine without the case isBlank(line): a blank line is returned.
readLineBlankReturned(r) ==
    IF ~r.ok
    THEN [again |-> FALSE, line |-> <<>>, err |-> TransportError("ReadLine")]
    ELSE IF isComment(r.line)
    THEN [again |-> TRUE, line |-> <<>>, err |-> NoError]
    ELSE IF isError(r.line)
    THEN [again |-> FALSE, line |-> <<>>, err |-> newError(r.line)]
    ELSE [again |-> FALSE, line |-> r.line, err |-> NoError]

\* readLine classifying the line before it looks at the error.
readLineClassifiesFirst(r) ==
    IF isBlank(r.line)
    THEN [again |-> TRUE, line |-> <<>>, err |-> NoError]
    ELSE IF isComment(r.line)
    THEN [again |-> TRUE, line |-> <<>>, err |-> NoError]
    ELSE IF isError(r.line)
    THEN [again |-> FALSE, line |-> <<>>, err |-> newError(r.line)]
    ELSE [again |-> FALSE, line |-> r.line,
          err |-> IF r.ok THEN NoError ELSE TransportError("ReadLine")]

\* One iteration of readLine's loop on what process.ReadLine returned:
\* again (the line is skipped), or the line and the error readLine returns.
readLine(r) ==
    IF ~r.ok
    THEN [again |-> FALSE, line |-> <<>>, err |-> TransportError("ReadLine")]
    ELSE IF isBlank(r.line)
    THEN [again |-> TRUE, line |-> <<>>, err |-> NoError]
    ELSE IF isComment(r.line)
    THEN [again |-> TRUE, line |-> <<>>, err |-> NoError]
    ELSE IF isError(r.line)
    THEN [again |-> FALSE, line |-> <<>>, err |-> newError(r.line)]
    ELSE [again |-> FALSE, line |-> r.line, err |-> NoError]

\* readOK's switch on what readLine returned.
readOK(rl) ==
    IF rl.err.kind # "nil" THEN rl.err
    ELSE IF isOK(rl.line) THEN NoError
    ELSE newUnexpectedResponseError(rl.line)

\* The helper sends at most MaxLoops lines that keep a read loop going.
MayLoop == loops < MaxLoops

(***************************************************************************)
(* NewClient.                                                              *)
(***************************************************************************)
\* NewClientReturn without the deferred function.
NewClientReturnNoClose(e) ==
    /\ err' = e
    /\ caller' = caller
    /\ IF e.kind = "nil"
       THEN pc' = "ready" /\ ret' = Return("NewClient", "client", NoError)
       ELSE pc' = "failed" /\ ret' = Return("NewClient", "client", e)

\* NewClientReturn releasing the transport without the BYE exchange.
NewClientReturnReleases(e) ==
    /\ err' = e
    /\ IF e.kind = "nil"
       THEN /\ pc' = "ready"
            /\ ret' = Return("NewClient", "client", NoError)
            /\ caller' = caller
       ELSE /\ pc' = "process_close"
            /\ ret' = ret
            /\ caller' = "NewClient"

\* NewClient returns with err = e: the deferred function runs c.Close()
\* when e is not nil.
NewClientReturn(e) ==
    /\ err' = e
    /\ IF e.kind = "nil"
       THEN /\ pc' = "ready"
            /\ ret' = Return("NewClient", "client", NoError)
            /\ caller' = caller
       ELSE /\ pc' = "bye_write"
            /\ ret' = ret
            /\ caller' = "NewClient"

\* The loop over c.commands at its i-th command.
NextCommand(i) ==
    IF i > Len(c.commands)
    THEN NewClientReturn(NoError) /\ UNCHANGED <<cmdIdx, command>>
    ELSE /\ pc' = "command_write"
         /\ cmdIdx' = i
         /\ command' = c.commands[i]
         /\ UNCHANGED <<err, ret, caller>>

\* NewClient with the deferred function set up before Start: a failed Start
\* is followed by Close.
NewClientDeferFirst ==
    /\ pc = "new"
    /\ \E options \in OptionLists, ok \in BOOLEAN :
          LET cl == ApplyOptions(DefaultClient, options)
          IN  /\ c' = cl
              /\ arg' = options
              /\ log' = <<EvStart(cl.binaryName, cl.args, ok)>>
              /\ ret' = NoReturn
              /\ IF ok
                 THEN pc' = "greeting" /\ err' = NoError /\ caller' = caller
                 ELSE /\ pc' = "bye_write"
                      /\ err' = TransportError("Start")
                      /\ caller' = "NewClient"
    /\ UNCHANGED <<cerr, cmdIdx, command, result, quality, loops, previous>>

NewClient ==
    /\ pc = "new"
    /\ \E options \in OptionLists, ok \in BOOLEAN :
          LET cl == ApplyOptions(DefaultClient, options)
          IN  /\ c' = cl
              /\ arg' = options
              /\ log' = <<EvStart(cl.binaryName, cl.args, ok)>>
              /\ IF ok
                 THEN pc' = "greeting" /\ err' = NoError /\ ret' = NoReturn
                 ELSE /\ pc' = "failed"
                      /\ err' = TransportError("Start")
                      /\ ret' = Return("NewClient", "client", TransportError("Start"))
    /\ UNCHANGED <<caller, cerr, cmdIdx, command, result, quality, loops, previous>>

\* greeting without the check that the line is OK.
greetingUnchecked(rl) ==
    IF rl.err.kind # "nil" THEN rl.err ELSE NoError

\* The error NewClient has after it read the greeting: readLine's, or an
\* unexpected response when the line is not OK.
greeting(rl) ==
    IF rl.err.kind # "nil" THEN rl.err
    ELSE IF ~isOK(rl.line) THEN newUnexpectedResponseError(rl.line)
    ELSE NoError

\* line, err = c.readLine() and the check of the greeting
Greeting ==
    /\ pc = "greeting"
    /\ \E r \in HandshakeOutcomes :
          LET rl == readLine(r)
          IN  /\ log' = Append(log, EvRead(r))
              /\ IF rl.again
                 THEN /\ MayLoop
                      /\ loops' = loops + 1
                      /\ UNCHANGED <<pc, ret, caller, err, cmdIdx, command>>
                 ELSE /\ loops' = loops
                      /\ IF greeting(rl).kind # "nil"
                         THEN NewClientReturn(greeting(rl)) /\ UNCHANGED <<cmdIdx, command>>
                         ELSE NextCommand(1)
    /\ UNCHANGED <<c, arg, cerr, result, quality, previous>>

\* CommandWrite with the next command written before the reply is read.
CommandWritePipelined ==
    /\ pc = "command_write"
    /\ \E ok \in BOOLEAN :
          /\ log' = Append(log, EvWrite(command, ok))
          /\ IF ok
             THEN NextCommand(cmdIdx + 1)
             ELSE NewClientReturn(TransportError("Write")) /\ UNCHANGED <<cmdIdx, command>>
    /\ UNCHANGED <<c, arg, cerr, result, quality, loops, previous>>

\* CommandWrite reading a reply whether the write succeeded or failed.
CommandWriteErrorDropped ==
    /\ pc = "command_write"
    /\ \E ok \in BOOLEAN :
          /\ log' = Append(log, EvWrite(command, ok))
          /\ pc' = "command_read"
          /\ UNCHANGED <<ret, caller, err>>
    /\ UNCHANGED <<c, arg, cerr, cmdIdx, command, result, quality, loops, previous>>

\* c.command(command): the write
CommandWrite ==
    /\ pc = "command_write"
    /\ \E ok \in BOOLEAN :
          /\ log' = Append(log, EvWrite(command, ok))
          /\ IF ok
             THEN pc' = "command_read" /\ UNCHANGED <<ret, caller, err>>
             ELSE NewClientReturn(TransportError("Write"))
    /\ UNCHANGED <<c, arg, cerr, cmdIdx, command, result, quality, loops, previous>>

\* CommandRead with the reply to the command ignored.
CommandReadIgnoreReply ==
    /\ pc = "command_read"
    /\ \E r \in HandshakeOutcomes :
          LET rl == readLine(r)
          IN  /\ log' = Append(log, EvRead(r))
              /\ IF rl.again
                 THEN /\ MayLoop
                      /\ loops' = loops + 1
                      /\ UNCHANGED <<pc, ret, caller, err, cmdIdx, command>>
                 ELSE /\ loops' = loops
                      /\ NextCommand(cmdIdx + 1)
    /\ UNCHANGED <<c, arg, cerr, result, quality, previous>>

\* c.command(command): readOK
CommandRead ==
    /\ pc = "command_read"
    /\ \E r \in HandshakeOutcomes :
          LET rl == readLine(r)
          IN  /\ log' = Append(log, EvRead(r))
              /\ IF rl.again
                 THEN /\ MayLoop
                      /\ loops' = loops + 1
                      /\ UNCHANGED <<pc, ret, caller, err, cmdIdx, command>>
                 ELSE /\ loops' = loops
                      /\ IF readOK(rl).kind # "nil"
                         THEN NewClientReturn(readOK(rl)) /\ UNCHANGED <<cmdIdx, command>>
                         ELSE NextCommand(cmdIdx + 1)
    /\ UNCHANGED <<c, arg, cerr, result, quality, previous>>

(***************************************************************************)
(* Close.                                                                  *)
(***************************************************************************)
\* CloseDone with the error of Close replacing NewClient's err.
CloseDoneReplaces(e) ==
    IF caller = "NewClient"
    THEN /\ pc' = "failed"
         /\ err' = (IF e.kind = "nil" THEN err ELSE e)
         /\ ret' = Return("NewClient", "client", IF e.kind = "nil" THEN err ELSE e)
    ELSE /\ pc' = "ready"
         /\ err' = err
         /\ ret' = Return("Close", <<>>, e)

\* Close returns e to who called it.
CloseDone(e) ==
    IF caller = "NewClient"
    THEN /\ pc' = "failed"
         /\ err' = combineErrors(err, e)
         /\ ret' = Return("NewClient", "client", combineErrors(err, e))
    ELSE /\ pc' = "ready"
         /\ err' = err
         /\ ret' = Return("Close", <<>>, e)

\* CloseReturn with process.Close called only when the BYE exchange succeeded.
CloseReturnNoDefer(e) ==
    IF e.kind = "nil"
    THEN cerr' = e /\ pc' = "process_close" /\ UNCHANGED <<err, ret>>
    ELSE cerr' = NoError /\ CloseDone(e)

\* Close leaves its body with err = e: the deferred
\* combineErrorFunc(&err, c.process.Close) runs next, whatever e is.
CloseReturn(e) ==
    /\ cerr' = e
    /\ pc' = "process_close"
    /\ UNCHANGED <<err, ret>>

\* What the call that has just returned is to the call that begins.
PreviousCall ==
    IF ret.op = "Close" THEN "Close"
    ELSE IF ret.op = "GetPIN" /\ ret.val # ZeroResult THEN "GetPIN"
    ELSE ""

\* CallClose with a client that remembers it was closed: a Close after a
\* Close returns at once.
CallCloseOnce ==
    /\ pc = "ready"
    /\ previous' = PreviousCall
    /\ caller' = "api"
    /\ arg' = <<>>
    /\ log' = <<>>
    /\ cerr' = NoError
    /\ loops' = 0
    /\ IF ret.op = "Close"
       THEN pc' = "ready" /\ ret' = Return("Close", <<>>, NoError)
       ELSE pc' = "bye_write" /\ ret' = NoReturn
    /\ UNCHANGED <<c, err, cmdIdx, command, result, quality>>

CallClose ==
    /\ pc = "ready"
    /\ previous' = PreviousCall
    /\ pc' = "bye_write"
    /\ caller' = "api"
    /\ arg' = <<>>
    /\ log' = <<>>
    /\ ret' = NoReturn
    /\ cerr' = NoError
    /\ loops' = 0
    /\ UNCHANGED <<c, err, cmdIdx, command, result, quality>>

\* c.writeLine("BYE")
ByeWrite ==
    /\ pc = "bye_write"
    /\ \E ok \in BOOLEAN :
          /\ log' = Append(log, EvWrite(BYE, ok))
          /\ IF ok
             THEN pc' = "bye_read" /\ cerr' = NoError /\ UNCHANGED <<err, ret>>
             ELSE CloseReturn(TransportError("Write"))
    /\ UNCHANGED <<c, arg, caller, cmdIdx, command, result, quality, loops, previous>>

\* err = c.readOK()
ByeRead ==
    /\ pc = "bye_read"
    /\ \E r \in HandshakeOutcomes :
          LET rl == readLine(r)
          IN  /\ log' = Append(log, EvRead(r))
              /\ IF rl.again
                 THEN MayLoop /\ loops' = loops + 1 /\ UNCHANGED <<pc, cerr, err, ret>>
                 ELSE loops' = loops /\ CloseReturn(readOK(rl))
    /\ UNCHANGED <<c, arg, caller, cmdIdx, command, result, quality, previous>>

\* ProcessClose with the error of c.process.Close replacing Close's err.
ProcessCloseMasks ==
    /\ pc = "process_close"
    /\ \E ok \in BOOLEAN :
          LET e == IF ok THEN cerr ELSE TransportError("Close")
          IN  /\ log' = Append(log, EvClose(ok))
              /\ cerr' = NoError
              /\ CloseDone(e)
    /\ UNCHANGED <<c, arg, caller, cmdIdx, command, result, quality, loops, previous>>

\* The deferred combineErrorFunc(&err, c.process.Close), and Close's return
\* (its locals are gone).
ProcessClose ==
    /\ pc = "process_close"
    /\ \E ok \in BOOLEAN :
          LET e == combineErrors(cerr, IF ok THEN NoError ELSE TransportError("Close"))
          IN  /\ log' = Append(log, EvClose(ok))
              /\ cerr' = NoError
              /\ CloseDone(e)
    /\ UNCHANGED <<c, arg, caller, cmdIdx, command, result, quality, loops, previous>>


(***************************************************************************)
(* Confirm, Message and ClearPassphrase.                                   *)
(***************************************************************************)
\* An API call begins: its locals are fresh and log starts again.
Call(first, a) ==
    /\ pc = "ready"
    /\ previous' = PreviousCall
    /\ pc' = first
    /\ arg' = a
    /\ log' = <<>>
    /\ ret' = NoReturn
    /\ loops' = 0
    /\ UNCHANGED <<c, caller, err, cerr, cmdIdx>>

\* An API call other than Close returns: its locals are gone.
Done(op, val, e) ==
    /\ pc' = "ready"
    /\ ret' = Return(op, val, e)
    /\ command' = <<>>
    /\ result' = ZeroResult
    /\ quality' = 0

\* command := "CONFIRM"; if option != "" { command += " " + option }
confirmCommand(option) ==
    IF option # <<>> THEN CONFIRM \o <<32>> \o option ELSE CONFIRM

CallConfirm ==
    /\ \E option \in ConfirmOptions :
          /\ Call("confirm_write", option)
          /\ command' = confirmCommand(option)
    /\ UNCHANGED <<result, quality>>

ConfirmWrite ==
    /\ pc = "confirm_write"
    /\ \E ok \in BOOLEAN :
          /\ log' = Append(log, EvWrite(command, ok))
          /\ IF ok
             THEN pc' = "confirm_read" /\ UNCHANGED <<ret, command, result, quality>>
             ELSE Done("Confirm", FALSE, TransportError("Write"))
    /\ UNCHANGED <<c, arg, caller, err, cerr, cmdIdx, loops, previous>>

\* confirmReply without the case of ASSUAN_Not_Confirmed.
confirmReplyNoDecline(rl) ==
    IF rl.err.kind # "nil" THEN [val |-> FALSE, err |-> rl.err]
    ELSE IF isOK(rl.line) THEN [val |-> TRUE, err |-> NoError]
    ELSE [val |-> FALSE, err |-> newUnexpectedResponseError(rl.line)]

\* Confirm's switch on what readLine returned: what Confirm returns.
confirmReply(rl) ==
    IF rl.err.kind # "nil" THEN [val |-> FALSE, err |-> rl.err]
    ELSE IF isOK(rl.line) THEN [val |-> TRUE, err |-> NoError]
    ELSE IF rl.line = NotConfirmed THEN [val |-> FALSE, err |-> NoError]
    ELSE [val |-> FALSE, err |-> newUnexpectedResponseError(rl.line)]

ConfirmRead ==
    /\ pc = "confirm_read"
    /\ \E r \in ReadOutcomes :
          LET rl == readLine(r)
          IN  /\ log' = Append(log, EvRead(r))
              /\ IF rl.again
                 THEN MayLoop /\ loops' = loops + 1 /\ UNCHANGED <<pc, ret, command, result, quality>>
                 ELSE /\ loops' = loops
                      /\ Done("Confirm", confirmReply(rl).val, confirmReply(rl).err)
    /\ UNCHANGED <<c, arg, caller, err, cerr, cmdIdx, previous>>

CallMessage ==
    /\ Call("message_write", <<>>)
    /\ command' = MESSAGE
    /\ UNCHANGED <<result, quality>>

MessageWrite ==
    /\ pc = "message_write"
    /\ \E ok \in BOOLEAN :
          /\ log' = Append(log, EvWrite(command, ok))
          /\ IF ok
             THEN pc' = "message_read" /\ UNCHANGED <<ret, command, result, quality>>
             ELSE Done("Message", <<>>, TransportError("Write"))
    /\ UNCHANGED <<c, arg, caller, err, cerr, cmdIdx, loops, previous>>

MessageRead ==
    /\ pc = "message_read"
    /\ \E r \in ReadOutcomes :
          LET rl == readLine(r)
          IN  /\ log' = Append(log, EvRead(r))
              /\ IF rl.again
                 THEN MayLoop /\ loops' = loops + 1 /\ UNCHANGED <<pc, ret, command, result, quality>>
                 ELSE loops' = loops /\ Done("Message", <<>>, readOK(rl))
    /\ UNCHANGED <<c, arg, caller, err, cerr, cmdIdx, previous>>

\* CallClearPassphrase with cacheID put in the command as it is.
CallClearPassphraseRaw ==
    /\ \E cacheID \in CacheIDs :
          /\ Call("clear_write", cacheID)
          /\ command' = CLEARPASSPHRASE \o cacheID
    /\ UNCHANGED <<result, quality>>

CallClearPassphrase ==
    /\ \E cacheID \in CacheIDs :
          /\ Call("clear_write", cacheID)
          /\ command' = CLEARPASSPHRASE \o escape(cacheID)
    /\ UNCHANGED <<result, quality>>

ClearPassphraseWrite ==
    /\ pc = "clear_write"
    /\ \E ok \in BOOLEAN :
          /\ log' = Append(log, EvWrite(command, ok))
          /\ IF ok
             THEN pc' = "clear_read" /\ UNCHANGED <<ret, command, result, quality>>
             ELSE Done("ClearPassphrase", <<>>, TransportError("Write"))
    /\ UNCHANGED <<c, arg, caller, err, cerr, cmdIdx, loops, previous>>

ClearPassphraseRead ==
    /\ pc = "clear_read"
    /\ \E r \in ReadOutcomes :
          LET rl == readLine(r)
          IN  /\ log' = Append(log, EvRead(r))
              /\ IF rl.again
                 THEN MayLoop /\ loops' = loops + 1 /\ UNCHANGED <<pc, ret, command, result, quality>>
                 ELSE loops' = loops /\ Done("ClearPassphrase", <<>>, readOK(rl))
    /\ UNCHANGED <<c, arg, caller, err, cerr, cmdIdx, previous>>

(***************************************************************************)
(* GetPIN.                                                                 *)
(***************************************************************************)
\* clampQuality with the upper bound 1000.
clampQuality1000(q) ==
    IF q < -100 THEN -100 ELSE IF q > 100 THEN 1000 ELSE q

\* if quality < -100 { quality = -100 } else if quality > 100 { quality = 100 }
clampQuality(q) ==
    IF q < -100 THEN -100 ELSE IF q > 100 THEN 100 ELSE q

\* GetPINReturn returning the accumulated result with an error too.
GetPINReturnKeepsResult(res, e) ==
    Done("GetPIN", res, e)

\* GetPIN returns: the result it has accumulated when e is nil,
\* GetPINResult{} otherwise.
GetPINReturn(res, e) ==
    Done("GetPIN", IF e.kind = "nil" THEN res ELSE ZeroResult, e)

\* CallGetPIN with the result of the GetPIN call before kept: result is
\* state of the client, not of the call.
CallGetPINKeepsResult ==
    /\ Call("getpin_write", <<>>)
    /\ result' = (IF ret.op = "GetPIN" THEN ret.val ELSE ZeroResult)
    /\ quality' = 0
    /\ command' = GETPIN

CallGetPIN ==
    /\ Call("getpin_write", <<>>)
    /\ result' = ZeroResult
    /\ quality' = 0
    /\ command' = GETPIN

GetPINWrite ==
    /\ pc = "getpin_write"
    /\ \E ok \in BOOLEAN :
          /\ log' = Append(log, EvWrite(GETPIN, ok))
          /\ IF ok
             THEN pc' = "getpin_read" /\ UNCHANGED <<ret, command, result, quality>>
             ELSE GetPINReturn(result, TransportError("Write"))
    /\ UNCHANGED <<c, arg, caller, err, cerr, cmdIdx, loops, previous>>

\* getPINCase taking every inquiry for a quality inquiry.
getPINCaseAnyInquiry(line) ==
    IF isOK(line) THEN "ok"
    ELSE IF isData(line) THEN "data"
    ELSE IF line = StatusFromCache THEN "from_cache"
    ELSE IF line = StatusRepeated THEN "repeated"
    ELSE IF HasPrefix(line, SubSeq(InquireQuality, 1, 8)) THEN "quality"
    ELSE "default"

\* getPINCase with the quality case taking INQUIRE QUALITY without the
\* space that ends the prefix.
getPINCaseNoSpace(line) ==
    IF isOK(line) THEN "ok"
    ELSE IF isData(line) THEN "data"
    ELSE IF line = StatusFromCache THEN "from_cache"
    ELSE IF line = StatusRepeated THEN "repeated"
    ELSE IF HasPrefix(line, SubSeq(InquireQuality, 1, 15)) THEN "quality"
    ELSE "default"

\* getPINCase with an OK line taken for a status line: the loop goes on.
getPINCaseOKGoesOn(line) ==
    IF isOK(line) THEN "repeated"
    ELSE IF isData(line) THEN "data"
    ELSE IF line = StatusFromCache THEN "from_cache"
    ELSE IF line = StatusRepeated THEN "repeated"
    ELSE IF HasPrefix(line, InquireQuality) THEN "quality"
    ELSE "default"

\* The case of GetPIN's switch that a line readLine returned falls in.
getPINCase(line) ==
    IF isOK(line) THEN "ok"
    ELSE IF isData(line) THEN "data"
    ELSE IF line = StatusFromCache THEN "from_cache"
    ELSE IF line = StatusRepeated THEN "repeated"
    ELSE IF HasPrefix(line, InquireQuality) THEN "quality"
    ELSE "default"

\* getPINStore with the two status cases exchanged.
getPINStoreSwapped(res, line) ==
    CASE getPINCase(line) = "data" ->
            [res EXCEPT !.PIN = getPIN(SubSeq(line, 3, Len(line)))]
      [] getPINCase(line) = "from_cache" ->
            [res EXCEPT !.PINRepeated = TRUE]
      [] getPINCase(line) = "repeated" ->
            [res EXCEPT !.PasswordFromCache = TRUE]
      [] OTHER -> res

\* getPINStore with a data line added to the PIN read so far.
getPINStoreAppends(res, line) ==
    CASE getPINCase(line) = "data" ->
            [res EXCEPT !.PIN = @ \o getPIN(SubSeq(line, 3, Len(line)))]
      [] getPINCase(line) = "from_cache" ->
            [res EXCEPT !.PasswordFromCache = TRUE]
      [] getPINCase(line) = "repeated" ->
            [res EXCEPT !.PINRepeated = TRUE]
      [] OTHER -> res

\* The cases that store into result.
getPINStore(res, line) ==
    CASE getPINCase(line) = "data" ->
            [res EXCEPT !.PIN = getPIN(SubSeq(line, 3, Len(line)))]
      [] getPINCase(line) = "from_cache" ->
            [res EXCEPT !.PasswordFromCache = TRUE]
      [] getPINCase(line) = "repeated" ->
            [res EXCEPT !.PINRepeated = TRUE]
      [] OTHER -> res

\* One iteration of GetPIN's loop up to its next transport call.
GetPINRead ==
    /\ pc = "getpin_read"
    /\ \E r \in GetPINReadOutcomes :
          LET rl == readLine(r)
              kind == getPINCase(rl.line)
          IN  IF rl.again
              THEN /\ MayLoop
                   /\ loops' = loops + 1
                   /\ log' = Append(log, EvRead(r))
                   /\ UNCHANGED <<pc, ret, command, result, quality>>
              ELSE IF rl.err.kind # "nil"
              THEN /\ log' = Append(log, EvRead(r))
                   /\ GetPINReturn(result, rl.err)
                   /\ loops' = loops
              ELSE IF kind = "ok"
              THEN /\ log' = Append(log, EvRead(r))
                   /\ GetPINReturn(result, NoError)
                   /\ loops' = loops
              ELSE IF kind \in {"data", "from_cache", "repeated"}
              THEN /\ MayLoop
                   /\ loops' = loops + 1
                   /\ log' = Append(log, EvRead(r))
                   /\ result' = getPINStore(result, rl.line)
                   /\ UNCHANGED <<pc, ret, command, quality>>
              ELSE IF kind = "quality"
              THEN /\ MayLoop
                   /\ loops' = loops + 1
                   /\ \E q \in qualityFunc(c) :
                         LET pin == getPIN(SubSeq(rl.line, 17, Len(rl.line)))
                         IN  /\ log' = log \o <<EvRead(r), EvQuality(pin, q)>>
                             /\ IF q.ok
                                THEN /\ quality' = clampQuality(q.quality)
                                     /\ pc' = "quality_data"
                                ELSE /\ quality' = q.quality
                                     /\ pc' = "quality_can"
                   /\ UNCHANGED <<ret, command, result>>
              ELSE /\ log' = Append(log, EvRead(r))
                   /\ GetPINReturn(result, newUnexpectedResponseError(rl.line))
                   /\ loops' = loops
    /\ UNCHANGED <<c, arg, caller, err, cerr, cmdIdx, previous>>

\* QualityData going back to the loop without END.
QualityDataNoEnd ==
    /\ pc = "quality_data"
    /\ \E ok \in BOOLEAN :
          /\ log' = Append(log, EvWrite(DPrefix \o FormatInt(quality), ok))
          /\ IF ok
             THEN pc' = "getpin_read" /\ UNCHANGED <<ret, command, result, quality>>
             ELSE GetPINReturn(result, TransportError("Write"))
    /\ UNCHANGED <<c, arg, caller, err, cerr, cmdIdx, loops, previous>>

\* QualityData going on to END when the write of the score failed.
QualityDataErrorDropped ==
    /\ pc = "quality_data"
    /\ \E ok \in BOOLEAN :
          /\ log' = Append(log, EvWrite(DPrefix \o FormatInt(quality), ok))
          /\ pc' = "quality_end"
          /\ UNCHANGED <<ret, command, result, quality>>
    /\ UNCHANGED <<c, arg, caller, err, cerr, cmdIdx, loops, previous>>

\* c.writeLine(fmt.Sprintf("D %d", quality))
QualityData ==
    /\ pc = "quality_data"
    /\ \E ok \in BOOLEAN :
          /\ log' = Append(log, EvWrite(DPrefix \o FormatInt(quality), ok))
          /\ IF ok
             THEN pc' = "quality_end" /\ UNCHANGED <<ret, command, result, quality>>
             ELSE GetPINReturn(result, TransportError("Write"))
    /\ UNCHANGED <<c, arg, caller, err, cerr, cmdIdx, loops, previous>>

\* c.writeLine("END")
QualityEnd ==
    /\ pc = "quality_end"
    /\ \E ok \in BOOLEAN :
          /\ log' = Append(log, EvWrite(END, ok))
          /\ IF ok
             THEN pc' = "getpin_read" /\ UNCHANGED <<ret, command, result, quality>>
             ELSE GetPINReturn(result, TransportError("Write"))
    /\ UNCHANGED <<c, arg, caller, err, cerr, cmdIdx, loops, previous>>

\* QualityCan taking the answer for the end of the exchange: GetPIN returns
\* after CAN without reading on.
QualityCanReturns ==
    /\ pc = "quality_can"
    /\ \E ok \in BOOLEAN :
          /\ log' = Append(log, EvWrite(CAN, ok))
          /\ IF ok
             THEN GetPINReturn(result, NoError)
             ELSE GetPINReturn(result, TransportError("Write"))
    /\ UNCHANGED <<c, arg, caller, err, cerr, cmdIdx, loops, previous>>

\* c.writeLine("CAN")
QualityCan ==
    /\ pc = "quality_can"
    /\ \E ok \in BOOLEAN :
          /\ log' = Append(log, EvWrite(CAN, ok))
          /\ IF ok
             THEN pc' = "getpin_read" /\ UNCHANGED <<ret, command, result, quality>>
             ELSE GetPINReturn(result, TransportError("Write"))
    /\ UNCHANGED <<c, arg, caller, err, cerr, cmdIdx, loops, previous>>

Init ==
    /\ pc = "new"
    /\ c = DefaultClient
    /\ log = <<>>
    /\ ret = NoReturn
    /\ arg = <<>>
    /\ caller = "api"
    /\ err = NoError
    /\ cerr = NoError
    /\ cmdIdx = 0
    /\ command = <<>>
    /\ result = ZeroResult
    /\ quality = 0
    /\ loops = 0
    /\ previous = ""

Next ==
    \/ NewClient
    \/ Greeting
    \/ CommandWrite
    \/ CommandRead
    \/ CallClose
    \/ ByeWrite
    \/ ByeRead
    \/ ProcessClose
    \/ CallConfirm
    \/ ConfirmWrite
    \/ ConfirmRead
    \/ CallMessage
    \/ MessageWrite
    \/ MessageRead
    \/ CallClearPassphrase
    \/ ClearPassphraseWrite
    \/ ClearPassphraseRead
    \/ CallGetPIN
    \/ GetPINWrite
    \/ GetPINRead
    \/ QualityData
    \/ QualityEnd
    \/ QualityCan

Spec == Init /\ [][Next]_vars

\* A step of a GetPIN call in progress.
GetPINStep == GetPINWrite \/ GetPINRead \/ QualityData \/ QualityEnd \/ QualityCan

\* The client runs on: a GetPIN call that can take its next step takes it.
\* The helper sends at most MaxLoops lines that keep the loop going, and
\* then a line that ends it or nothing more (the read fails).
LiveSpec == Spec /\ WF_vars(GetPINStep)

(***************************************************************************)
(* Properties.  They read log, the transport operations of the API call in *)
(* progress or just returned, and ret, what that call returned.            *)
(***************************************************************************)
Last(q) == q[Len(q)]

\* The log entry e is a successful read of a line.
IsRead(e) == e.op = "ReadLine" /\ e.ok

\* The log entry e is a successful read of a line readLine skips.
IsSkipped(e) == IsRead(e) /\ (isBlank(e.data) \/ isComment(e.data))

\* The log entry e is a (tried) write of line and a line feed.
IsWrite(e, line) == e.op = "Write" /\ e.data = line \o <<LF>>

\* The number of entries of log with the operation op.
Count(op) == Cardinality({i \in 1..Len(log) : log[i].op = op})

InGetPIN ==
    \/ pc \in {"getpin_write", "getpin_read", "quality_data", "quality_end", "quality_can"}
    \/ (pc = "ready" /\ ret.op = "GetPIN")

Returned(op) == pc = "ready" /\ ret.op = op

\* A decimal number as %d writes it: an optional '-' and digits.
IsDecimal(t) ==
    LET digits == IF t # <<>> /\ t[1] = 45 THEN Tail(t) ELSE t
    IN  digits # <<>> /\ \A k \in 1..Len(digits) : IsDigit(digits[k])

\* C1: when the lines read after GETPIN end in an OK line, GetPIN returns
\* without error; PasswordFromCache is true exactly when S PASSWORD_FROM_CACHE
\* was read before the OK, PINRepeated exactly when S PIN_REPEATED was, and
\* the PIN is the unescaped payload of a data line that was read (empty when
\* none was), whatever the order of the status and data lines.
C1_GetPINResult ==
    (InGetPIN /\ log # <<>> /\ IsRead(Last(log)) /\ ~IsSkipped(Last(log))
              /\ isOK(Last(log).data))
    => /\ Returned("GetPIN")
       /\ ret.err = NoError
       /\ ret.val.PasswordFromCache
            <=> \E i \in 1..Len(log) : IsRead(log[i]) /\ log[i].data = StatusFromCache
       /\ ret.val.PINRepeated
            <=> \E i \in 1..Len(log) : IsRead(log[i]) /\ log[i].data = StatusRepeated
       /\ LET dataLines == {i \in 1..Len(log) : IsRead(log[i]) /\ isData(log[i].data)}
          IN  IF dataLines = {} THEN ret.val.PIN = <<>>
              ELSE \E i \in dataLines :
                      ret.val.PIN = unescape(SubSeq(log[i].data, 3, Len(log[i].data)))

\* GetPIN returned after D %25, S PIN_REPEATED, OK: the PIN is "%".
C1_Witness ==
    /\ Returned("GetPIN")
    /\ Len(log) = 4
    /\ IsRead(log[2]) /\ log[2].data = <<68, 32, 37, 50, 53>>
    /\ IsRead(log[3]) /\ log[3].data = StatusRepeated
    /\ IsRead(log[4]) /\ isOK(log[4].data)
    /\ ret.val = GetPINResult(<<37>>, FALSE, TRUE)

\* The entry i of log is the read of a quality inquiry.
IsInquiry(i) == IsRead(log[i]) /\ HasPrefix(log[i].data, InquireQuality)

\* C2: in GetPIN each INQUIRE QUALITY line read is followed at once by one
\* call of the quality function with the unescaped argument and then by the
\* writes D <score>, END (valid) or the write CAN (no opinion), with no read
\* before the answer ends and nothing more written after it; the quality
\* function is called for nothing else, so the answers are in the order of
\* the inquiries.
C2_QualityAnswer ==
    InGetPIN =>
      /\ \A i \in 1..Len(log) : IsInquiry(i) =>
            /\ i + 1 <= Len(log)
            /\ log[i + 1].op = "qualityFunc"
            /\ log[i + 1].data[1] = unescape(SubSeq(log[i].data, 17, Len(log[i].data)))
            /\ i + 2 <= Len(log) =>
                  IF log[i + 1].ok
                  THEN /\ log[i + 2].op = "Write"
                       /\ HasPrefix(log[i + 2].data, DPrefix)
                       /\ Last(log[i + 2].data) = LF
                       /\ IsDecimal(SubSeq(log[i + 2].data, 3, Len(log[i + 2].data) - 1))
                       /\ (i + 3 <= Len(log)) => (log[i + 2].ok /\ IsWrite(log[i + 3], END))
                       /\ (i + 4 <= Len(log)) => (log[i + 3].ok /\ log[i + 4].op = "ReadLine")
                  ELSE /\ IsWrite(log[i + 2], CAN)
                       /\ (i + 3 <= Len(log)) => (log[i + 2].ok /\ log[i + 3].op = "ReadLine")
            /\ (pc = "getpin_read" \/ (Returned("GetPIN") /\ ret.err = NoError)) =>
                  /\ Len(log) >= (IF log[i + 1].ok THEN i + 3 ELSE i + 2)
                  /\ log[IF log[i + 1].ok THEN i + 3 ELSE i + 2].ok
      /\ \A j \in 1..Len(log) : log[j].op = "qualityFunc" => (j > 1 /\ IsInquiry(j - 1))
      /\ \A j \in 2..Len(log) :
            (log[j].op = "Write" /\ ~IsWrite(log[j], GETPIN))
            => (log[j - 1].op = "qualityFunc" \/ (j > 2 /\ log[j - 2].op = "qualityFunc"))

\* GetPIN returned after two inquiries, the first answered D 5, END and the
\* second CAN.
C2_Witness ==
    /\ Returned("GetPIN")
    /\ ret.err = NoError
    /\ Len(log) = 9
    /\ IsInquiry(2) /\ log[3].op = "qualityFunc" /\ log[3].data = <<<<97, 65>>, 5>>
    /\ IsWrite(log[4], <<68, 32, 53>>) /\ IsWrite(log[5], END)
    /\ IsInquiry(6) /\ log[7].op = "qualityFunc" /\ ~log[7].ok
    /\ IsWrite(log[8], CAN)

\* The lines D <n> for the scores of [-100, 100], as they are written.
ScoreLines == {DPrefix \o FormatInt(n) \o <<LF>> : n \in -100..100}

\* C3: the score written in a D <score> answer is the score the quality
\* function gave when that lies in [-100, 100], 100 when it is above and -100
\* when it is below; every D line written lies in [-100, 100].
C3_ScoreClamped ==
    InGetPIN =>
      /\ \A i \in 1..Len(log) :
            (log[i].op = "qualityFunc" /\ log[i].ok /\ i + 1 <= Len(log)) =>
               LET s == log[i].data[2]
                   written == IF s > 100 THEN 100 ELSE IF s < -100 THEN -100 ELSE s
               IN  log[i + 1] = [op |-> "Write",
                                 data |-> DPrefix \o FormatInt(written) \o <<LF>>,
                                 ok |-> log[i + 1].ok]
      /\ \A i \in 1..Len(log) :
            (log[i].op = "Write" /\ HasPrefix(log[i].data, DPrefix))
            => log[i].data \in ScoreLines

\* The scores 101 and -101 were answered with D 100 and D -100.
C3_Witness ==
    /\ InGetPIN
    /\ Len(log) >= 8
    /\ log[3].op = "qualityFunc" /\ log[3].ok /\ log[3].data[2] = 101
    /\ IsWrite(log[4], <<68, 32, 49, 48, 48>>)
    /\ log[7].op = "qualityFunc" /\ log[7].ok /\ log[7].data[2] = -101
    /\ IsWrite(log[8], <<68, 32, 45, 49, 48, 48>>)

\* The digits of an error line ERR <digits> <description>, leading zeros
\* dropped.
RECURSIVE DropZeros(_)
DropZeros(d) == IF Len(d) > 1 /\ d[1] = 48 THEN DropZeros(Tail(d)) ELSE d

CodeDigits(line) == DropZeros(SubSeq(line, 5, 4 + DigitRun(line, 5)))

\* The line has the form ERR <digits> <description>.
IsErrLine(line) ==
    /\ HasPrefix(line, ERRPrefix)
    /\ DigitRun(line, 5) >= 1
    /\ Len(line) >= 5 + DigitRun(line, 5)
    /\ line[5 + DigitRun(line, 5)] = 32

\* C4: when the reply GetPIN or Confirm reads is a line ERR <code>
\* <description>, the call returns an error and IsCancelled is true of it
\* exactly when <code> is 83886179; IsCancelled is false of an unexpected
\* response and of a transport error.
C4_Cancelled ==
    (Returned("GetPIN") \/ Returned("Confirm")) =>
      /\ (IsRead(Last(log)) /\ IsErrLine(Last(log).data)) =>
            /\ ret.err.kind # "nil"
            /\ IsCancelled(ret.err)
                 <=> (CodeDigits(Last(log).data) = <<56, 51, 56, 56, 54, 49, 55, 57>>)
      /\ ret.err.kind \in {"unexpected", "transport", "nil"} => ~IsCancelled(ret.err)

\* GetPIN read ERR 83886179 c after a data line and returned a cancellation.
C4_Witness ==
    /\ Returned("GetPIN")
    /\ Len(log) = 3
    /\ IsRead(log[2]) /\ isData(log[2].data)
    /\ IsRead(log[3])
    /\ log[3].data = <<69, 82, 82, 32, 56, 51, 56, 56, 54, 49, 55, 57, 32, 99>>
    /\ IsCancelled(ret.err)

\* A line that falls in none of the cases of GetPIN's switch but the default.
IsUnrecognized(line) ==
    /\ ~isOK(line)
    /\ ~isData(line)
    /\ line # StatusFromCache
    /\ line # StatusRepeated
    /\ ~HasPrefix(line, InquireQuality)
    /\ ~isError(line)

\* C5: when GetPIN is handed a line (one readLine does not skip) that is not
\* OK, not data, not one of the two status lines, not INQUIRE QUALITY and
\* not an error line, that read is the last transport operation of the call
\* and GetPIN returns the unexpected-response error that carries the line.
C5_UnexpectedResponse ==
    InGetPIN =>
      \A i \in 1..Len(log) :
         (IsRead(log[i]) /\ ~IsSkipped(log[i]) /\ IsUnrecognized(log[i].data)) =>
            /\ i = Len(log)
            /\ Returned("GetPIN")
            /\ ret.err = [kind |-> "unexpected", Line |-> log[i].data]

\* GetPIN read a data line and then INQUIRE OTHER a.
C5_Witness ==
    /\ Returned("GetPIN")
    /\ Len(log) = 3
    /\ IsRead(log[2]) /\ isData(log[2].data)
    /\ IsRead(log[3])
    /\ log[3].data = <<73, 78, 81, 85, 73, 82, 69, 32, 79, 84, 72, 69, 82, 32, 97>>
    /\ ret.err.kind = "unexpected"

\* C6: Confirm(option) writes one line, CONFIRM or CONFIRM <option>, reads
\* one reply (after the lines readLine skips) and returns true on OK, false
\* on ASSUAN_Not_Confirmed, false and an error on an error line, false and
\* the unexpected-response error on any other reply.
C6_Confirm ==
    Returned("Confirm") =>
      /\ Count("Write") = 1
      /\ IsWrite(log[1], IF arg = <<>> THEN CONFIRM ELSE CONFIRM \o <<32>> \o arg)
      /\ \A i \in 2..Len(log) : log[i].op = "ReadLine"
      /\ log[1].ok =>
            /\ Len(log) >= 2
            /\ \A i \in 2..(Len(log) - 1) : IsSkipped(log[i])
            /\ ~IsSkipped(Last(log))
      /\ (Len(log) >= 2 /\ IsRead(Last(log))) =>
            LET line == Last(log).data
            IN  IF isOK(line) THEN ret.val = TRUE /\ ret.err = NoError
                ELSE IF line = NotConfirmed THEN ret.val = FALSE /\ ret.err = NoError
                ELSE IF isError(line)
                THEN ret.val = FALSE /\ ret.err.kind \in {"assuan", "unexpected"}
                ELSE /\ ret.val = FALSE
                     /\ ret.err = [kind |-> "unexpected", Line |-> line]

\* Confirm("x") read a comment and then ASSUAN_Not_Confirmed.
C6_Witness ==
    /\ Returned("Confirm")
    /\ arg = <<120>>
    /\ Len(log) = 3
    /\ IsSkipped(log[2])
    /\ IsRead(log[3]) /\ log[3].data = NotConfirmed
    /\ ret.val = FALSE /\ ret.err = NoError

InNewClient ==
    \/ pc \in {"greeting", "command_write", "command_read", "failed"}
    \/ (pc \in {"bye_write", "bye_read", "process_close"} /\ caller = "NewClient")
    \/ Returned("NewClient")

\* The error e is x, or combines errors one of which reports x.
RECURSIVE Reports(_, _)
Reports(e, x) ==
    \/ e = x
    \/ /\ e.kind = "combined"
       /\ (Reports(e.errs[1], x) \/ Reports(e.errs[2], x))

\* The entry i of log is the first read of a line that readLine does not skip.
IsFirstProtocolLine(i) ==
    /\ IsRead(log[i])
    /\ ~IsSkipped(log[i])
    /\ \A j \in 1..(i - 1) : log[j].op = "ReadLine" => IsSkipped(log[j])

\* The log entry e is the write of a starting command (none of them is BYE).
IsCommandWrite(e) == e.op = "Write" /\ e.data # BYE \o <<LF>>

\* C7 as the specification states it: NewClient reads before it writes, and
\* a first protocol line that is not OK makes it fail with the
\* unexpected-response error that carries the line, no starting command
\* written.
C7_AsStated ==
    InNewClient =>
      /\ \A i \in 1..Len(log) :
            log[i].op = "Write" => \E j \in 1..(i - 1) : log[j].op = "ReadLine"
      /\ \A i \in 1..Len(log) : (IsFirstProtocolLine(i) /\ ~isOK(log[i].data)) =>
            /\ pc # "ready"
            /\ \A j \in 1..Len(log) : ~IsCommandWrite(log[j])
            /\ pc = "failed" => Reports(ret.err, newUnexpectedResponseError(log[i].data))

\* C7, amended: NewClient reads before it writes, and a first protocol line
\* that is not OK makes it fail, no starting command written; the error
\* reports the unexpected-response error that carries the line, or, when the
\* line is an error line (ERR prefix), the error decoded from that line.
C7_Greeting ==
    InNewClient =>
      /\ \A i \in 1..Len(log) :
            log[i].op = "Write" => \E j \in 1..(i - 1) : log[j].op = "ReadLine"
      /\ \A i \in 1..Len(log) : (IsFirstProtocolLine(i) /\ ~isOK(log[i].data)) =>
            /\ pc # "ready"
            /\ \A j \in 1..Len(log) : ~IsCommandWrite(log[j])
            /\ pc = "failed" =>
                  IF IsErrLine(log[i].data)
                  THEN Reports(ret.err,
                               [kind |-> "assuan",
                                Code |-> Atoi(CodeDigits(log[i].data)),
                                Description |->
                                    SubSeq(log[i].data,
                                           6 + DigitRun(log[i].data, 5),
                                           Len(log[i].data))])
                  ELSE Reports(ret.err, newUnexpectedResponseError(log[i].data))

\* NewClient with three starting commands read a blank line and then "what"
\* as the greeting, and failed.
C7_Witness ==
    /\ pc = "failed"
    /\ Len(c.commands) = 3
    /\ Len(log) >= 3
    /\ IsSkipped(log[2])
    /\ IsRead(log[3]) /\ log[3].data = <<119, 104, 97, 116>>
    /\ Reports(ret.err, newUnexpectedResponseError(log[3].data))

\* C8: a NewClient that fails after the transport started (the greeting is
\* not OK, a starting command is rejected, a read or a write fails) has
\* called the transport's Close exactly once.
C8_CloseOnce ==
    (pc = "failed" /\ log[1].ok) => Count("Close") = 1

\* NewClient failed because the helper answered ERR 5 x to the first
\* starting command.
C8_Witness ==
    /\ pc = "failed"
    /\ Len(log) >= 5
    /\ IsRead(log[2]) /\ isOK(log[2].data)
    /\ IsCommandWrite(log[3]) /\ log[3].ok
    /\ IsRead(log[4]) /\ log[4].data = <<69, 82, 82, 32, 53, 32, 120>>
    /\ Count("Close") = 1

\* The starting commands written so far, in order.
CommandWrites == SelectSeq(log, IsCommandWrite)

\* The last entry before i that is the write of a starting command or Start.
PreviousCommand(i) ==
    CHOOSE p \in 1..(i - 1) :
       /\ (IsCommandWrite(log[p]) \/ log[p].op = "Start")
       /\ \A m \in (p + 1)..(i - 1) : ~IsCommandWrite(log[m])

\* C9: NewClient writes the starting commands in the order of their options;
\* each is written right after the read of an OK line that follows the
\* successful write of the one before (or Start) with only skipped lines
\* between, so a command whose reply is not OK is the last one written; and
\* NewClient succeeds only when all were written and answered OK.
C9_CommandsInOrder ==
    InNewClient =>
      /\ Len(CommandWrites) <= Len(c.commands)
      /\ \A k \in 1..Len(CommandWrites) :
            CommandWrites[k].data = c.commands[k] \o <<LF>>
      /\ \A i \in 1..Len(log) : IsCommandWrite(log[i]) =>
            /\ i >= 3
            /\ log[PreviousCommand(i)].ok
            /\ PreviousCommand(i) < i - 1
            /\ \A m \in (PreviousCommand(i) + 1)..(i - 2) : IsSkipped(log[m])
            /\ IsRead(log[i - 1]) /\ ~IsSkipped(log[i - 1]) /\ isOK(log[i - 1].data)
      /\ Returned("NewClient") =>
            /\ Len(CommandWrites) = Len(c.commands)
            /\ \A k \in 1..Len(CommandWrites) : CommandWrites[k].ok
            /\ IsRead(Last(log)) /\ isOK(Last(log).data)

\* Of three starting commands the second was answered "what": NewClient
\* failed and the third was never written.
C9_Witness ==
    /\ pc = "failed"
    /\ Len(c.commands) = 3
    /\ Len(CommandWrites) = 2
    /\ \E i \in 2..(Len(log) - 1) :
          /\ IsWrite(log[i], c.commands[2])
          /\ IsRead(log[i + 1]) /\ log[i + 1].data = <<119, 104, 97, 116>>

\* C10: a call of Close writes BYE first and calls the transport's Close
\* exactly once, as the last transport operation of the call, whether the
\* BYE write fails (nothing is read then), the read of the reply fails, the
\* reply is not OK or it is OK; so does the Close that a failed NewClient
\* runs.
C10_CloseSequence ==
    /\ Returned("Close") =>
          /\ IsWrite(log[1], BYE)
          /\ Count("Write") = 1
          /\ Count("Close") = 1
          /\ Last(log).op = "Close"
          /\ \A i \in 2..(Len(log) - 1) : log[i].op = "ReadLine"
          /\ log[1].ok <=> Len(log) > 2
    /\ (pc = "failed" /\ log[1].ok) =>
          /\ Count("Close") = 1
          /\ Last(log).op = "Close"
          /\ \E b \in 2..(Len(log) - 1) :
                /\ IsWrite(log[b], BYE)
                /\ \A i \in (b + 1)..(Len(log) - 1) : log[i].op = "ReadLine"
                /\ log[b].ok <=> Len(log) > b + 1
    /\ \A i \in 1..Len(log) : log[i].op = "Close" => i = Len(log)

\* Close returned after its BYE write failed: the transport's Close was
\* still called.
C10_Witness ==
    /\ Returned("Close")
    /\ Len(log) = 2
    /\ IsWrite(log[1], BYE) /\ ~log[1].ok
    /\ log[2].op = "Close"

\* The protocol error that the line ERR <digits> <description> stands for.
DecodedError(line) ==
    [kind |-> "assuan",
     Code |-> Atoi(CodeDigits(line)),
     Description |-> SubSeq(line, 6 + DigitRun(line, 5), Len(line))]

\* What the BYE exchange of a returned Close failed with (NoError when it
\* succeeded), read from log: the write of BYE, the reads, the Close.
ByeExchangeError ==
    IF ~log[1].ok THEN TransportError("Write")
    ELSE LET r == log[Len(log) - 1]
         IN  IF ~r.ok THEN TransportError("ReadLine")
             ELSE IF isOK(r.data) THEN NoError
             ELSE IF IsErrLine(r.data) THEN DecodedError(r.data)
             ELSE newUnexpectedResponseError(r.data)

\* What the transport's Close of a returned Close failed with.
ProcessCloseError == IF Last(log).ok THEN NoError ELSE TransportError("Close")

\* C11: Close returns no error exactly when the BYE exchange and the
\* transport's Close both succeeded; when both fail the error it returns
\* reports both failures, and when one of them fails it returns that one.
C11_CloseErrors ==
    Returned("Close") =>
      /\ ret.err = NoError <=> (ByeExchangeError = NoError /\ ProcessCloseError = NoError)
      /\ (ByeExchangeError # NoError /\ ProcessCloseError # NoError) =>
            /\ Reports(ret.err, ByeExchangeError)
            /\ Reports(ret.err, ProcessCloseError)
      /\ (ByeExchangeError # NoError /\ ProcessCloseError = NoError) =>
            ret.err = ByeExchangeError
      /\ (ByeExchangeError = NoError /\ ProcessCloseError # NoError) =>
            ret.err = ProcessCloseError

\* Close read "what" in reply to BYE and the transport's Close failed too:
\* the error returned reports both.
C11_Witness ==
    /\ Returned("Close")
    /\ Len(log) = 3
    /\ IsRead(log[2]) /\ log[2].data = <<119, 104, 97, 116>>
    /\ ~log[3].ok
    /\ ret.err.kind = "combined"
    /\ Reports(ret.err, newUnexpectedResponseError(log[2].data))
    /\ Reports(ret.err, TransportError("Close"))

\* The positions at which the client's next transport operation is a read.
ReadPositions ==
    {"greeting", "command_read", "bye_read", "confirm_read", "message_read",
     "clear_read", "getpin_read"}

\* The step reads a line that is blank or a comment.
ReadsSkippedLine ==
    /\ Len(log') = Len(log) + 1
    /\ IsSkipped(log'[Len(log')])

\* C12: a blank line and a comment line are skipped wherever they are read
\* (greeting, reply to a starting command, GETPIN loop, CONFIRM, MESSAGE,
\* CLEARPASSPHRASE, BYE): the read changes nothing of the client and of the
\* call in progress, which reads again from the same position, so the call
\* goes on as if the line had not been sent; the client never ends a call on
\* such a line and never reports it as an unexpected response.
C12_SkippedLines ==
    /\ [][ReadsSkippedLine =>
            /\ pc \in ReadPositions
            /\ UNCHANGED <<pc, c, ret, arg, caller, err, cerr, cmdIdx, command,
                           result, quality>>]_vars
    /\ [](\A i \in 1..Len(log) : IsSkipped(log[i]) =>
            /\ IF i = Len(log) THEN pc \in ReadPositions
                               ELSE log[i + 1].op = "ReadLine"
            /\ ~Reports(ret.err, newUnexpectedResponseError(log[i].data)))

\* GetPIN read D abc, a comment line and OK, and returned the PIN abc.
C12_Witness ==
    /\ Returned("GetPIN")
    /\ Len(log) = 4
    /\ IsRead(log[2]) /\ log[2].data = <<68, 32, 97, 98, 99>>
    /\ IsRead(log[3]) /\ isComment(log[3].data)
    /\ IsRead(log[4]) /\ isOK(log[4].data)
    /\ ret.err = NoError
    /\ ret.val.PIN = <<97, 98, 99>>

(***************************************************************************)
(* The codec on its own: escape and unescape applied to every string of at *)
(* most MaxLen bytes of Alphabet.  arg is the string, command its escaped  *)
(* form and result.PIN what unescape returns.                              *)
(***************************************************************************)
MaxLen == 4

\* '\n', '\r', '%', '0', '2', '5', 'A', 'F', 'G', 'a'
Alphabet == {LF, CR, Percent, 48, 50, 53, 65, 70, 71, 97}

Strings == UNION {[1..n -> Alphabet] : n \in 0..MaxLen}

\* Pieces of protocol lines: the prefixes and lines the client tests for,
\* some of them cut short, white space and other text.
LineTokens ==
    { <<>>, <<32>>, <<9>>, <<35>>, <<120>>,
      OKPrefix, ERRPrefix, DPrefix,
      SubSeq(ERRPrefix, 1, 3), SubSeq(DPrefix, 1, 1), <<83, 32>>,
      StatusFromCache, StatusRepeated,
      InquireQuality, SubSeq(InquireQuality, 1, 15) }

\* The lines to classify: two pieces, one after the other.
ClassifyLines == {p \o q : p \in LineTokens, q \in LineTokens}

\* The tests of readLine and of GetPIN's switch that hold of line.
lineClasses(line) ==
    (IF isBlank(line) THEN {"blank"} ELSE {})
    \cup (IF isComment(line) THEN {"comment"} ELSE {})
    \cup (IF isError(line) THEN {"error"} ELSE {})
    \cup (IF isOK(line) THEN {"ok"} ELSE {})
    \cup (IF isData(line) THEN {"data"} ELSE {})
    \cup (IF line = StatusFromCache THEN {"from_cache"} ELSE {})
    \cup (IF line = StatusRepeated THEN {"repeated"} ELSE {})
    \cup (IF HasPrefix(line, InquireQuality) THEN {"quality"} ELSE {})

\* What GetPIN's loop does with line, the tests made in the order of the
\* code: readLine's first, then those of the switch.
lineOutcome(line) ==
    LET rl == readLine([line |-> line, ok |-> TRUE])
    IN  IF rl.again THEN "skipped"
        ELSE IF rl.err.kind # "nil" THEN "error"
        ELSE getPINCase(rl.line)

CodecInit ==
    /\ pc = "codec"
    /\ arg \in Strings \cup ClassifyLines
    /\ c = DefaultClient
    /\ log = <<>>
    /\ ret = NoReturn
    /\ caller = "api"
    /\ err = NoError
    /\ cerr = NoError
    /\ cmdIdx = 0
    /\ command = <<>>
    /\ result = ZeroResult
    /\ quality = 0
    /\ loops = 0
    /\ previous = ""

\* escape(s)
EscapeString ==
    /\ pc = "codec"
    /\ pc' = "escaped"
    /\ command' = escape(arg)
    /\ UNCHANGED <<c, log, ret, arg, caller, err, cerr, cmdIdx, result, quality, loops, previous>>

\* unescape(escape(s))
UnescapeEscaped ==
    /\ pc = "escaped"
    /\ pc' = "roundtrip"
    /\ result' = [result EXCEPT !.PIN = unescape(command)]
    /\ UNCHANGED <<c, log, ret, arg, caller, err, cerr, cmdIdx, command, quality, loops, previous>>

\* unescape(data)
UnescapeString ==
    /\ pc = "codec"
    /\ pc' = "unescaped"
    /\ result' = [result EXCEPT !.PIN = unescape(arg)]
    /\ UNCHANGED <<c, log, ret, arg, caller, err, cerr, cmdIdx, command, quality, loops, previous>>

\* The line classified.
ClassifyLine ==
    /\ pc = "codec"
    /\ pc' = "classified"
    /\ ret' = Return("classify",
                     [classes |-> lineClasses(arg), outcome |-> lineOutcome(arg)],
                     NoError)
    /\ UNCHANGED <<c, log, arg, caller, err, cerr, cmdIdx, command, result, quality, loops, previous>>

\* The durations given to WithTimeout, in nanoseconds: none, less than a
\* second, whole seconds, seconds and a fraction, and negative ones.
Durations ==
    {0, 1, 500000000, 999999999, 1000000000, 1000000001, 1500000000, 1999999999,
     2000000000, -1, -999999999, -1000000000, -1500000000}

\* WithTimeout(timeout) applied to a new client.
ApplyTimeout ==
    /\ pc = "codec"
    /\ arg = <<>>
    /\ \E timeout \in Durations :
          /\ c' = ApplyOption(DefaultClient, WithTimeout(timeout))
          /\ ret' = Return("WithTimeout", timeout, NoError)
    /\ pc' = "timeout"
    /\ UNCHANGED <<log, arg, caller, err, cerr, cmdIdx, command, result, quality, loops,
                   previous>>

CodecNext ==
    EscapeString \/ UnescapeEscaped \/ UnescapeString \/ ClassifyLine \/ ApplyTimeout

CodecSpec == CodecInit /\ [][CodecNext]_vars

\* C13: unescape(escape(s)) = s for every string s, with line feeds,
\* carriage returns and percent signs in any combination, strings that
\* already look like escapes included.
C13_RoundTrip ==
    pc = "roundtrip" => result.PIN = arg

\* The string %0A, which looks like an escape, was escaped to %250A and
\* unescaped to itself.
C13_Witness ==
    /\ pc = "roundtrip"
    /\ arg = <<37, 48, 65>>
    /\ command = <<37, 50, 53, 48, 65>>
    /\ result.PIN = <<37, 48, 65>>

\* The sixteen uppercase hexadecimal digits, in the order of their values.
HexDigits == <<48, 49, 50, 51, 52, 53, 54, 55, 56, 57, 65, 66, 67, 68, 69, 70>>

HexValue(b) == (CHOOSE k \in 1..16 : HexDigits[k] = b) - 1

IsHex(b) == \E k \in 1..16 : HexDigits[k] = b

\* s[i] is a '%' followed by two uppercase hexadecimal digits.
IsEscapeAt(s, i) ==
    /\ i >= 1
    /\ i + 2 <= Len(s)
    /\ s[i] = 37
    /\ IsHex(s[i + 1])
    /\ IsHex(s[i + 2])

\* What the bytes s[i], s[i+1], ... contribute to the output, byte by byte:
\* a '%XY' its one byte, the two digits of a '%XY' nothing, any other byte
\* (a '%' that starts no '%XY' included) itself.
RECURSIVE Decoded(_, _)
Decoded(s, i) ==
    IF i > Len(s) THEN <<>>
    ELSE (IF IsEscapeAt(s, i)
          THEN <<16 * HexValue(s[i + 1]) + HexValue(s[i + 2])>>
          ELSE IF IsEscapeAt(s, i - 1) \/ IsEscapeAt(s, i - 2) THEN <<>>
          ELSE <<s[i]>>)
         \o Decoded(s, i + 1)

\* C14: unescape returns, for every input, the input with each '%XY' (X and
\* Y uppercase hexadecimal digits, at the end of the input too) replaced by
\* the byte it encodes and every other byte copied: a '%' at the end, a '%'
\* followed by one byte and a '%' followed by lowercase digits are copied.
C14_Unescape ==
    pc = "unescaped" => result.PIN = Decoded(arg, 1)

\* unescape of %%0A: the first '%' is copied and the %0A that ends the input
\* becomes a line feed.
C14_Witness ==
    /\ pc = "unescaped"
    /\ arg = <<37, 37, 48, 65>>
    /\ result.PIN = <<37, 10>>

\* unescape of %a%: both '%' are copied.
C14_WitnessMalformed ==
    /\ pc = "unescaped"
    /\ arg = <<37, 97, 37>>
    /\ result.PIN = arg

\* The bytes d end in a line feed and hold no other line feed.
IsOneLine(d) ==
    /\ Len(d) >= 1
    /\ d[Len(d)] = LF
    /\ \A k \in 1..(Len(d) - 1) : d[k] # LF

\* C15 as the specification states it: every byte sequence the client
\* writes to the transport, in any operation and for any text of the caller,
\* ends in exactly one line feed and holds no other line feed.
C15_AsStated ==
    \A i \in 1..Len(log) : log[i].op = "Write" => IsOneLine(log[i].data)

\* Confirm with the option "x\n" wrote CONFIRM x and two line feeds.
C15_Witness ==
    /\ pc = "confirm_read"
    /\ arg = <<120, 10>>
    /\ Len(log) = 1
    /\ log[1].op = "Write" /\ log[1].ok
    /\ log[1].data = CONFIRM \o <<32, 120, 10, 10>>

\* The log entry e is the write of a line of a quality answer.
IsAnswerWrite(e) ==
    /\ e.op = "Write"
    /\ \/ isData(e.data)
       \/ e.data = END \o <<LF>>
       \/ e.data = CAN \o <<LF>>

\* The log entry e is the write of a command line: a starting command,
\* GETPIN, CONFIRM, MESSAGE, CLEARPASSPHRASE or BYE.
IsCommandLine(e) == e.op = "Write" /\ ~IsAnswerWrite(e)

\* The entry k of log ends the command written at entry i: a transport
\* operation that failed, or the read of a reply that ends the exchange (for
\* GETPIN an OK line, an error line or an unrecognized line; for every other
\* command any line that is not skipped).
EndsCommand(i, k) ==
    \/ log[k].op \in {"ReadLine", "Write"} /\ ~log[k].ok
    \/ /\ IsRead(log[k])
       /\ ~IsSkipped(log[k])
       /\ log[i].data = GETPIN \o <<LF>> =>
            \/ isOK(log[k].data)
            \/ isError(log[k].data)
            \/ IsUnrecognized(log[k].data)

\* The command written at entry i has ended before entry j.
EndedBefore(i, j) == \E k \in i..(j - 1) : EndsCommand(i, k)

CallOver == pc \in {"ready", "failed"}

\* C16: at most one command is in flight.  A command line is written only
\* when every command line written before it has ended (its terminating
\* reply was read, or a transport operation of its exchange failed), and a
\* call returns only when its command has ended and never right after a
\* successful write, so the first write of the next call finds no command
\* in flight either.  Two successful writes follow each other with no read
\* between only as the D <score> and END lines of one quality answer.
C16_OneInFlight ==
    /\ \A i \in 1..Len(log) : \A j \in (i + 1)..Len(log) :
          (IsCommandLine(log[i]) /\ IsCommandLine(log[j])) => EndedBefore(i, j)
    /\ CallOver =>
          /\ \A i \in 1..Len(log) : IsCommandLine(log[i]) => EndedBefore(i, Len(log) + 1)
          /\ log # <<>> => ~(Last(log).op = "Write" /\ Last(log).ok)
    /\ \A i \in 1..(Len(log) - 1) :
          (log[i].op = "Write" /\ log[i].ok /\ log[i + 1].op = "Write") =>
             /\ isData(log[i].data)
             /\ log[i + 1].data = END \o <<LF>>
             /\ i >= 2 /\ log[i - 1].op = "qualityFunc"

\* NewClient wrote two starting commands, each after the OK reply to the
\* line before was read, and the reply to the second is still to come.
C16_Witness ==
    /\ pc = "command_read"
    /\ Len(log) = 5
    /\ IsRead(log[2]) /\ isOK(log[2].data)
    /\ IsCommandLine(log[3]) /\ log[3].ok
    /\ IsRead(log[4]) /\ isOK(log[4].data)
    /\ IsCommandLine(log[5]) /\ log[5].ok

\* C17: ClearPassphrase(id) and Message() each write one line,
\* CLEARPASSPHRASE and the escaped id or MESSAGE, then read one reply (after
\* the lines readLine skips) and return no error when it is OK, the decoded
\* protocol error when it is a line ERR <code> <description>, and the
\* unexpected-response error that carries the line for any other reply; a
\* write or read that fails ends the call with that failure.
C17_OneLineCommands ==
    (Returned("ClearPassphrase") \/ Returned("Message")) =>
      /\ Count("Write") = 1
      /\ IsWrite(log[1], IF ret.op = "Message" THEN MESSAGE
                         ELSE CLEARPASSPHRASE \o escape(arg))
      /\ \A i \in 2..Len(log) : log[i].op = "ReadLine"
      /\ \A i \in 2..(Len(log) - 1) : IsSkipped(log[i])
      /\ IF ~log[1].ok THEN Len(log) = 1 /\ ret.err = TransportError("Write")
         ELSE /\ Len(log) >= 2
              /\ ~IsSkipped(Last(log))
              /\ ret.err =
                   IF ~Last(log).ok THEN TransportError("ReadLine")
                   ELSE IF isOK(Last(log).data) THEN NoError
                   ELSE IF IsErrLine(Last(log).data) THEN DecodedError(Last(log).data)
                   ELSE newUnexpectedResponseError(Last(log).data)

\* ClearPassphrase("i%") wrote CLEARPASSPHRASE i%25, read a blank line and
\* then ERR 5 x, and returned the protocol error 5, x.
C17_Witness ==
    /\ Returned("ClearPassphrase")
    /\ arg = <<105, 37>>
    /\ Len(log) = 3
    /\ IsWrite(log[1], CLEARPASSPHRASE \o <<105, 37, 50, 53>>)
    /\ IsSkipped(log[2])
    /\ IsRead(log[3]) /\ log[3].data = <<69, 82, 82, 32, 53, 32, 120>>
    /\ ret.err = [kind |-> "assuan", Code |-> <<53>>, Description |-> <<120>>]

\* Message() read "what" and returned the unexpected-response error.
C17_WitnessMessage ==
    /\ Returned("Message")
    /\ Len(log) = 2
    /\ IsWrite(log[1], MESSAGE)
    /\ IsRead(log[2]) /\ log[2].data = <<119, 104, 97, 116>>
    /\ ret.err = [kind |-> "unexpected", Line |-> <<119, 104, 97, 116>>]

\* The indices of the options of opts that are WithBinaryName.
BinaryNameOptions(opts) == {i \in 1..Len(opts) : opts[i].option = "WithBinaryName"}

\* The binary name the options ask for: that of the last WithBinaryName,
\* pinentry when there is none.
LastBinaryName(opts) ==
    IF BinaryNameOptions(opts) = {}
    THEN <<112, 105, 110, 101, 110, 116, 114, 121>>
    ELSE opts[CHOOSE i \in BinaryNameOptions(opts) :
                 \A j \in BinaryNameOptions(opts) : j <= i].arg

\* The arguments the options contribute, in the order of the options.
RECURSIVE ContributedArgs(_)
ContributedArgs(opts) ==
    IF opts = <<>> THEN <<>>
    ELSE (CASE Head(opts).option = "WithArgs"         -> Head(opts).arg
            [] Head(opts).option = "WithDebug"        -> << DebugArg >>
            [] Head(opts).option = "WithNoGlobalGrab" -> << NoGlobalGrabArg >>
            [] OTHER                                  -> <<>>)
         \o ContributedArgs(Tail(opts))

\* C18: NewClient calls the transport's Start once, before any read or
\* write, with the binary name of the last WithBinaryName option (pinentry
\* when none is given) and with the arguments that WithArgs, WithDebug and
\* WithNoGlobalGrab contribute, in the order of the options.
C18_Start ==
    InNewClient =>
      /\ Len(log) >= 1
      /\ log[1].op = "Start"
      /\ Count("Start") = 1
      /\ log[1].data[1] = LastBinaryName(arg)
      /\ log[1].data[2] = ContributedArgs(arg)

\* NewClient was given WithBinaryName twice and four arguments through
\* WithArgs, WithDebug and WithNoGlobalGrab: Start got pinentry-b and
\* -a, -b, --debug, --no-global-grab, and the greeting was read after it.
C18_Witness ==
    /\ InNewClient
    /\ Len(log) >= 2
    /\ log[1].op = "Start" /\ log[1].ok
    /\ log[1].data[1] = PinentryB
    /\ log[1].data[2] = << <<45, 97>>, <<45, 98>>, DebugArg, NoGlobalGrabArg >>
    /\ Cardinality(BinaryNameOptions(arg)) = 2
    /\ log[2].op = "ReadLine"

\* C19 as the specification states it: when the reply that ends Confirm,
\* Message, ClearPassphrase or GetPIN is a line ERR <digits> <rest>, the
\* call returns the protocol error whose code is the number that <digits>
\* writes and whose description is <rest>; when it starts with ERR and a
\* space but has not that form, the call returns the unexpected-response
\* error that carries the line.
C19_AsStated ==
    (/\ \E op \in {"Confirm", "Message", "ClearPassphrase", "GetPIN"} : Returned(op)
     /\ Len(log) >= 2
     /\ IsRead(Last(log))
     /\ isError(Last(log).data)) =>
         IF IsErrLine(Last(log).data)
         THEN ret.err = [kind |-> "assuan",
                         Code |-> CodeDigits(Last(log).data),
                         Description |->
                             SubSeq(Last(log).data,
                                    6 + DigitRun(Last(log).data, 5),
                                    Len(Last(log).data))]
         ELSE ret.err = [kind |-> "unexpected", Line |-> Last(log).data]

\* Confirm read ERR 9223372036854775808 x and returned a protocol error
\* with the code 9223372036854775807.
C19_Witness ==
    /\ Returned("Confirm")
    /\ Len(log) = 2
    /\ IsRead(log[2])
    /\ CodeDigits(log[2].data)
         = <<57, 50, 50, 51, 51, 55, 50, 48, 51, 54, 56, 53, 52, 55, 55, 53, 56, 48, 56>>
    /\ ret.err.kind = "assuan"
    /\ ret.err.Code
         = <<57, 50, 50, 51, 51, 55, 50, 48, 51, 54, 56, 53, 52, 55, 55, 53, 56, 48, 55>>
    /\ ret.err.Description = <<120>>

\* "INQUIRE "
InquirePrefix == <<73, 78, 81, 85, 73, 82, 69, 32>>

\* An inquiry line whose keyword is not QUALITY: it starts with INQUIRE and
\* a space but not with INQUIRE QUALITY and a space.
IsOtherInquiry(line) ==
    /\ HasPrefix(line, InquirePrefix)
    /\ ~(Len(line) >= 16 /\ SubSeq(line, 1, 16) = InquirePrefix \o
            <<81, 85, 65, 76, 73, 84, 89, 32>>)

\* C20: when GetPIN reads an inquiry line whose keyword is not QUALITY, the
\* quality function is not called and nothing is written: the read is the
\* last operation of the call, and GetPIN returns no PIN and the
\* unexpected-response error that carries the line.
C20_OtherInquiry ==
    InGetPIN =>
      \A i \in 1..Len(log) : (IsRead(log[i]) /\ IsOtherInquiry(log[i].data)) =>
         /\ i = Len(log)
         /\ Returned("GetPIN")
         /\ ret.val = [PIN |-> <<>>, PasswordFromCache |-> FALSE, PINRepeated |-> FALSE]
         /\ ret.err = [kind |-> "unexpected", Line |-> log[i].data]

\* A client with a quality function answered one quality inquiry and then
\* read INQUIRE QUALITY with no space after it: GetPIN ended with the
\* unexpected-response error, the quality function called once in all.
C20_Witness ==
    /\ Returned("GetPIN")
    /\ c.qualityFunc = "custom"
    /\ Count("qualityFunc") = 1
    /\ IsRead(Last(log))
    /\ Last(log).data = <<73, 78, 81, 85, 73, 82, 69, 32, 81, 85, 65, 76, 73, 84, 89>>
    /\ ret.err.kind = "unexpected"

\* The entry e of log is a write of END or CAN that succeeded: a quality
\* answer is complete.
IsAnswerEnd(e) == e.op = "Write" /\ e.ok /\ (IsWrite(e, END) \/ IsWrite(e, CAN))

\* The call went on after the entry i of log: the next operation is a read,
\* or GetPIN is about to read.
ReadsOn(i) ==
    IF i = Len(log) THEN pc = "getpin_read" ELSE log[i + 1].op = "ReadLine"

\* GetPIN returned e right after the entry i of log.
EndsGetPIN(i, e) == i = Len(log) /\ Returned("GetPIN") /\ ret.err = e

\* The read at the entry i of log had the effect GetPIN's loop gives a line
\* of its class.
Dispatched(i) ==
    LET line == log[i].data
    IN  IF ~log[i].ok THEN EndsGetPIN(i, [kind |-> "transport", op |-> "ReadLine"])
        ELSE IF IsSkipped(log[i]) THEN ReadsOn(i)
        ELSE IF isError(line) THEN i = Len(log) /\ Returned("GetPIN") /\ ret.err.kind # "nil"
        ELSE IF isOK(line) THEN EndsGetPIN(i, [kind |-> "nil"])
        ELSE IF isData(line) \/ line = StatusFromCache \/ line = StatusRepeated
        THEN ReadsOn(i)
        ELSE IF HasPrefix(line, InquireQuality)
        THEN i + 1 <= Len(log) /\ log[i + 1].op = "qualityFunc"
        ELSE EndsGetPIN(i, [kind |-> "unexpected", Line |-> line])

\* C21: in GetPIN a quality answer gets no acknowledgement: after END or CAN
\* is written the next operation is a read of the outer loop, and the line
\* read then is dispatched as every line of the exchange is (OK ends GetPIN
\* with success, a quality inquiry starts another call of the quality
\* function, and so on).
C21_NoAcknowledgement ==
    InGetPIN =>
      /\ \A j \in 1..Len(log) : IsAnswerEnd(log[j]) =>
            /\ ReadsOn(j)
            /\ j < Len(log) => Dispatched(j + 1)
      /\ \A i \in 1..Len(log) : log[i].op = "ReadLine" => Dispatched(i)

\* GetPIN answered a first inquiry CAN and a second one D 5, END, read OK
\* right after END and returned with success.
C21_Witness ==
    /\ Returned("GetPIN")
    /\ ret.err = NoError
    /\ Len(log) = 9
    /\ IsInquiry(2) /\ IsWrite(log[4], CAN)
    /\ IsInquiry(5) /\ IsWrite(log[7], <<68, 32, 53>>) /\ IsWrite(log[8], END)
    /\ IsRead(log[9]) /\ isOK(log[9].data)

\* The entry i of log is a write of the quality sub-exchange that failed:
\* D <score>, END or CAN, the writes GetPIN makes after GETPIN.
IsFailedAnswerWrite(i) ==
    /\ log[i].op = "Write"
    /\ ~log[i].ok
    /\ i > 1
    /\ \/ HasPrefix(log[i].data, DPrefix)
       \/ IsWrite(log[i], END)
       \/ IsWrite(log[i], CAN)

\* C22: a failed write in the quality sub-exchange ends the GetPIN call: the
\* failed write of D <score>, END or CAN is the last transport operation of
\* the call (so END is not written after a failed D <score>, and nothing is
\* read), and GetPIN returns the error of that write.
C22_AnswerWriteFails ==
    InGetPIN =>
      \A i \in 1..Len(log) : IsFailedAnswerWrite(i) =>
         /\ i = Len(log)
         /\ Returned("GetPIN")
         /\ ret.err = [kind |-> "transport", op |-> "Write"]
         /\ \A k \in 1..Len(log) : ~(k > i /\ IsWrite(log[k], END))

\* The write of D 5 failed after a quality inquiry: GetPIN returned the write
\* error and END was not written.
C22_Witness ==
    /\ Returned("GetPIN")
    /\ Len(log) = 4
    /\ IsInquiry(2)
    /\ IsWrite(log[4], <<68, 32, 53>>) /\ ~log[4].ok
    /\ ret.err = TransportError("Write")

\* The write of END failed after D 100 was written.
C22_WitnessEnd ==
    /\ Returned("GetPIN")
    /\ Len(log) = 5
    /\ IsWrite(log[4], <<68, 32, 49, 48, 48>>) /\ log[4].ok
    /\ IsWrite(log[5], END) /\ ~log[5].ok
    /\ ret.err = TransportError("Write")

\* The write of CAN failed.
C22_WitnessCan ==
    /\ Returned("GetPIN")
    /\ Len(log) = 4
    /\ IsWrite(log[4], CAN) /\ ~log[4].ok
    /\ ret.err = TransportError("Write")

\* GetPIN, Confirm, Message or ClearPassphrase is in progress or has just
\* returned: log is the log of that call.
InOperation ==
    \/ pc \in {"getpin_write", "getpin_read", "quality_data", "quality_end",
               "quality_can", "confirm_write", "confirm_read", "message_write",
               "message_read", "clear_write", "clear_read"}
    \/ (pc = "ready" /\ ret.op \in {"GetPIN", "Confirm", "Message", "ClearPassphrase"})

\* The entry e of log is a transport write or read that failed.
IsTransportFailure(e) == e.op \in {"Write", "ReadLine"} /\ ~e.ok

\* The entry i of log belongs to the sending of a starting command: a
\* command was written and BYE was not yet.
InDirectiveSend(i) ==
    /\ \E j \in 1..i : IsCommandWrite(log[j])
    /\ \A j \in 1..i : ~IsWrite(log[j], BYE)

\* C23: no operation retries.  In GetPIN, Confirm, Message and
\* ClearPassphrase a transport write or read that fails is the last
\* transport operation of the call, which returns the error of that
\* operation.  The sending of a starting command ends the same way: its
\* failed write or read leaves that error with NewClient, no reply is read
\* after a failed write, no command is written again, and the only transport
\* operations that follow are those of the Close that NewClient runs.
C23_NoRetry ==
    /\ InOperation =>
          \A i \in 1..Len(log) : IsTransportFailure(log[i]) =>
             /\ i = Len(log)
             /\ pc = "ready"
             /\ ret.err = [kind |-> "transport", op |-> log[i].op]
    /\ InNewClient =>
          \A i \in 1..Len(log) : (IsTransportFailure(log[i]) /\ InDirectiveSend(i)) =>
             /\ i = Len(log) => err = [kind |-> "transport", op |-> log[i].op]
             /\ i < Len(log) => IsWrite(log[i + 1], BYE)
             /\ \A k \in (i + 1)..Len(log) : ~IsCommandWrite(log[k])
             /\ pc # "ready"
             /\ pc = "failed" =>
                   Reports(ret.err, [kind |-> "transport", op |-> log[i].op])

\* The write of the first of three starting commands failed: NewClient wrote
\* BYE next, read no reply to the command, and failed with the write error.
C23_Witness ==
    /\ pc = "failed"
    /\ Len(c.commands) = 3
    /\ Len(log) >= 4
    /\ IsCommandWrite(log[3]) /\ ~log[3].ok
    /\ IsWrite(log[4], BYE)
    /\ Len(CommandWrites) = 1
    /\ Reports(ret.err, TransportError("Write"))

\* GetPIN read a data line and then the read failed: it returned the read
\* error.
C23_WitnessGetPIN ==
    /\ Returned("GetPIN")
    /\ Len(log) = 3
    /\ IsRead(log[2]) /\ isData(log[2].data)
    /\ log[3].op = "ReadLine" /\ ~log[3].ok
    /\ ret.err = TransportError("ReadLine")

\* The write of CONFIRM x failed: Confirm returned the write error without
\* reading.
C23_WitnessConfirm ==
    /\ Returned("Confirm")
    /\ Len(log) = 1
    /\ ~log[1].ok
    /\ ret.err = TransportError("Write")

\* The entry e of log is a read at which the transport returned an error.
IsFailedRead(e) == e.op = "ReadLine" /\ ~e.ok

\* The error of the transport's ReadLine.
ReadError == [kind |-> "transport", op |-> "ReadLine"]

\* C24: a read at which the transport returns an error ends the line reader
\* at once, whatever line comes with the error: the client does not read
\* again in that call (an empty line with an error is not skipped as a blank
\* line, a line OK with an error is not taken as a reply), and the caller of
\* the line reader has the read error: the operation returns it, NewClient
\* and Close keep it as their error and go on to their teardown.
C24_ReadError ==
    \A i \in 1..Len(log) : IsFailedRead(log[i]) =>
       /\ \A k \in (i + 1)..Len(log) :
             log[k].op = "ReadLine" => (\E b \in (i + 1)..(k - 1) : IsWrite(log[b], BYE))
       /\ i < Len(log) => log[i + 1].op \in {"Write", "Close"}
       /\ i = Len(log) =>
             /\ pc \in {"ready", "bye_write", "process_close"}
             /\ pc = "ready" => (InOperation /\ ret.err = ReadError)
             /\ pc = "bye_write" => (caller = "NewClient" /\ err = ReadError)
             /\ pc = "process_close" => cerr = ReadError

\* The stream ended while Message waited for its reply, after a blank line:
\* the read returned an empty line and an error, and Message returned the
\* error.
C24_Witness ==
    /\ Returned("Message")
    /\ Len(log) = 3
    /\ IsSkipped(log[2])
    /\ IsFailedRead(log[3]) /\ log[3].data = <<>>
    /\ ret.err = TransportError("ReadLine")

\* GetPIN read the line OK together with an error: it returned the error.
C24_WitnessLine ==
    /\ Returned("GetPIN")
    /\ IsFailedRead(Last(log)) /\ Last(log).data = <<79, 75>>
    /\ ret.err = TransportError("ReadLine")

\* A line that does not end GetPIN's loop: readLine skips it, or GetPIN's
\* switch stores it or answers it.
KeepsLooping(line) ==
    \/ isBlank(line)
    \/ isComment(line)
    \/ /\ ~isError(line)
       /\ ~isOK(line)
       /\ \/ isData(line)
          \/ line = StatusFromCache
          \/ line = StatusRepeated
          \/ HasPrefix(line, InquireQuality)

\* The entry e of log is a terminal event of GetPIN: a transport write or
\* read that failed, or the read of an OK line, an error line or an
\* unrecognised line.
IsTerminalEvent(e) ==
    \/ IsTransportFailure(e)
    \/ (IsRead(e) /\ ~KeepsLooping(e.data))

\* A GetPIN call is in progress.
GetPINRunning ==
    pc \in {"getpin_write", "getpin_read", "quality_data", "quality_end", "quality_can"}

\* GetPIN returns exactly on a terminal event.
TerminalEventEndsGetPIN ==
    InGetPIN =>
      /\ Returned("GetPIN") => (log # <<>> /\ IsTerminalEvent(Last(log)))
      /\ \A i \in 1..Len(log) : IsTerminalEvent(log[i]) =>
            (i = Len(log) /\ Returned("GetPIN"))

\* C25: GetPIN returns exactly on a terminal event: when it has returned,
\* the last transport operation was a failed write or read or the read of an
\* OK line, an error line or an unrecognised line, and every such event is
\* the last of its call; it does not return on data, status, quality-inquiry,
\* blank or comment lines.  And every GetPIN call returns, the helper sending
\* a terminal line or the transport failing in the end.
C25_Terminates ==
    /\ []TerminalEventEndsGetPIN
    /\ GetPINRunning ~> Returned("GetPIN")

\* GetPIN read a data line and a status line and went on, then read ERR 5 x
\* and returned.
C25_Witness ==
    /\ Returned("GetPIN")
    /\ Len(log) = 4
    /\ IsRead(log[2]) /\ isData(log[2].data)
    /\ IsRead(log[3]) /\ log[3].data = StatusRepeated
    /\ IsRead(log[4]) /\ log[4].data = <<69, 82, 82, 32, 53, 32, 120>>
    /\ ret.err.kind = "assuan"

\* C26: when GetPIN returns an error (the error of an error line, an
\* unexpected-response error or a transport error) the result it returns is
\* empty: no PIN and both flags false, also when data lines and status lines
\* were read before in the same call.
C26_ErrorResultEmpty ==
    (Returned("GetPIN") /\ ret.err # [kind |-> "nil"]) =>
       /\ ret.val.PIN = <<>>
       /\ ~ret.val.PasswordFromCache
       /\ ~ret.val.PINRepeated

\* GetPIN read D abc and S PASSWORD_FROM_CACHE and then the line "what": it
\* returned the unexpected-response error and an empty result.
C26_Witness ==
    /\ Returned("GetPIN")
    /\ Len(log) = 4
    /\ IsRead(log[2]) /\ log[2].data = <<68, 32, 97, 98, 99>>
    /\ IsRead(log[3]) /\ log[3].data = StatusFromCache
    /\ IsRead(log[4]) /\ log[4].data = <<119, 104, 97, 116>>
    /\ ret.err = newUnexpectedResponseError(<<119, 104, 97, 116>>)
    /\ ret.val = ZeroResult

\* GetPIN read a data line and then the user cancelled.
C26_WitnessCancel ==
    /\ Returned("GetPIN")
    /\ \E i \in 1..Len(log) : IsRead(log[i]) /\ isData(log[i].data)
    /\ IsCancelled(ret.err)
    /\ ret.val = ZeroResult

\* GetPIN read a status line and then the write of a quality answer failed.
C26_WitnessTransport ==
    /\ Returned("GetPIN")
    /\ \E i \in 1..Len(log) : IsRead(log[i]) /\ log[i].data = StatusRepeated
    /\ Last(log).op = "Write" /\ ~Last(log).ok
    /\ ret.err = TransportError("Write")
    /\ ret.val = ZeroResult

\* The line has the form ERR <digits> <description> and its digits write a
\* number that the int type cannot hold.
IsOutOfRangeErrLine(line) ==
    IsErrLine(line) /\ DigitsGreater(CodeDigits(line), MaxInt64)

\* What follows the digits and the space of an error line.
DescriptionOf(line) == SubSeq(line, 6 + DigitRun(line, 5), Len(line))

\* C27 as the specification states it: when the digits of the error line
\* that ends Confirm, Message, ClearPassphrase or GetPIN cannot be parsed as
\* an integer, the call returns the protocol error with the code 0 and the
\* full description.
C27_AsStated ==
    (/\ \E op \in {"Confirm", "Message", "ClearPassphrase", "GetPIN"} : Returned(op)
     /\ Len(log) >= 2
     /\ IsRead(Last(log))
     /\ IsOutOfRangeErrLine(Last(log).data)) =>
         ret.err = [kind |-> "assuan",
                    Code |-> <<48>>,
                    Description |-> DescriptionOf(Last(log).data)]

\* C27, the part that holds: an error line whose digits are out of range is
\* decoded into a protocol error all the same, never into a failure of
\* another kind, and the description is the full text after the digits.
C27_DescriptionKept ==
    (/\ \E op \in {"Confirm", "Message", "ClearPassphrase", "GetPIN"} : Returned(op)
     /\ Len(log) >= 2
     /\ IsRead(Last(log))
     /\ IsOutOfRangeErrLine(Last(log).data)) =>
         /\ ret.err.kind = "assuan"
         /\ ret.err.Description = DescriptionOf(Last(log).data)

\* GetPIN read a data line and then ERR 9223372036854775808 x: it returned
\* the protocol error with the description x and the code
\* 9223372036854775807, not 0.
C27_Witness ==
    /\ Returned("GetPIN")
    /\ Len(log) = 3
    /\ IsRead(log[2]) /\ isData(log[2].data)
    /\ IsRead(log[3]) /\ IsOutOfRangeErrLine(log[3].data)
    /\ ret.err.kind = "assuan"
    /\ ret.err.Code = MaxInt64
    /\ ret.err.Code # <<48>>
    /\ ret.err.Description = <<120>>

\* The byte b is one that escape leaves unchanged.
IsPlain(b) == b \notin {10, 13, 37}

\* The string t with every '%' and the two bytes after it taken out.
RECURSIVE WithoutEscapes(_)
WithoutEscapes(t) ==
    IF t = <<>> THEN <<>>
    ELSE IF Head(t) = 37
    THEN WithoutEscapes(SubSeq(t, 4, Len(t)))
    ELSE <<Head(t)>> \o WithoutEscapes(Tail(t))

\* The string t is one line: it holds no line feed and no carriage return.
IsSingleLine(t) == \A k \in 1..Len(t) : t[k] # 10 /\ t[k] # 13

\* C28: for every string s, escape(s) holds no line feed and no carriage
\* return, every '%' in it is followed by 0A, 0D or 25, and the bytes of s
\* other than line feed, carriage return and '%' appear in it unchanged and
\* in their order; so the starting command a text option builds from s
\* (SETDESC and escape(s)) is a single line.
C28_EscapeOutput ==
    pc = "escaped" =>
      /\ IsSingleLine(command)
      /\ \A k \in 1..Len(command) : command[k] = 37 =>
            /\ k + 2 <= Len(command)
            /\ <<command[k + 1], command[k + 2]>>
                  \in {<<48, 65>>, <<48, 68>>, <<50, 53>>}
      /\ WithoutEscapes(command) = SelectSeq(arg, IsPlain)
      /\ Len(command) = Len(arg) + 2 * (Len(arg) - Len(SelectSeq(arg, IsPlain)))
      /\ LET cl == ApplyOption(DefaultClient, WithDesc(arg))
         IN  /\ Len(cl.commands) = 1
             /\ IsSingleLine(cl.commands[1])
             /\ cl.commands[1] = <<83, 69, 84, 68, 69, 83, 67, 32>> \o command

\* The string a, line feed, '%', carriage return was escaped to a%0A%25%0D.
C28_Witness ==
    /\ pc = "escaped"
    /\ arg = <<97, 10, 37, 13>>
    /\ command = <<97, 37, 48, 65, 37, 50, 53, 37, 48, 68>>

\* The outcome that belongs to a class of lines.
OutcomeOf(class) ==
    CASE class \in {"blank", "comment"} -> "skipped"
      [] class = "error"                -> "error"
      [] OTHER                          -> class

\* C29: of the tests blank, comment ('#' prefix), OK ('OK' prefix), error
\* ('ERR ' prefix), data ('D ' prefix), S PASSWORD_FROM_CACHE, S PIN_REPEATED
\* and 'INQUIRE QUALITY ' prefix at most one holds of a line, so what the
\* reader and GetPIN's switch do with the line is what its one class says,
\* whatever the order of the tests; a line of which none holds is
\* unrecognised (the default case).
C29_Unambiguous ==
    pc = "classified" =>
      /\ Cardinality(ret.val.classes) <= 1
      /\ \A class \in ret.val.classes : ret.val.outcome = OutcomeOf(class)
      /\ ret.val.classes = {} => ret.val.outcome = "default"

\* The line D OK was classified: it is a data line and nothing else.
C29_Witness ==
    /\ pc = "classified"
    /\ arg = <<68, 32, 79, 75>>
    /\ ret.val.classes = {"data"}
    /\ ret.val.outcome = "data"

\* The line INQUIRE QUALITY with no space after it is unrecognised.
C29_WitnessUnrecognised ==
    /\ pc = "classified"
    /\ arg = <<73, 78, 81, 85, 73, 82, 69, 32, 81, 85, 65, 76, 73, 84, 89>>
    /\ ret.val.classes = {}
    /\ ret.val.outcome = "default"

\* The entry of log at which a failed NewClient wrote BYE: the first
\* operation of its teardown.
TeardownStart == CHOOSE b \in 1..Len(log) : IsWrite(log[b], BYE)

\* The error that the line of the entry e stands for when it is read where
\* an OK line is expected.
NotOKError(e) ==
    IF ~e.ok THEN TransportError(e.op)
    ELSE IF IsErrLine(e.data) THEN DecodedError(e.data)
    ELSE newUnexpectedResponseError(e.data)

\* The handshake failure of a failed NewClient, read from the operation
\* before the teardown: a failed write or read, or a line that is not OK.
HandshakeFailure == NotOKError(log[TeardownStart - 1])

\* The failure of the teardown's BYE exchange (NoError when it succeeded).
TeardownByeError ==
    IF ~log[TeardownStart].ok THEN TransportError("Write")
    ELSE IF IsRead(log[Len(log) - 1]) /\ isOK(log[Len(log) - 1].data) THEN NoError
    ELSE NotOKError(log[Len(log) - 1])

\* C30: the error a failed NewClient returns reports the handshake failure
\* (bad greeting, rejected starting command, failed read or write) whether
\* the teardown succeeds or fails: it is the handshake failure alone when the
\* teardown succeeds, and when the teardown fails it reports the handshake
\* failure together with each failure of the teardown.
C30_HandshakeFailureKept ==
    (pc = "failed" /\ log[1].ok) =>
       /\ HandshakeFailure # NoError
       /\ Reports(ret.err, HandshakeFailure)
       /\ (TeardownByeError = NoError /\ ProcessCloseError = NoError) =>
             ret.err = HandshakeFailure
       /\ TeardownByeError # NoError => Reports(ret.err, TeardownByeError)
       /\ ProcessCloseError # NoError => Reports(ret.err, ProcessCloseError)
       /\ (TeardownByeError # NoError \/ ProcessCloseError # NoError) =>
             /\ ret.err.kind = "combined"
             /\ ret.err.errs[1] = HandshakeFailure

\* NewClient read ERR 5 x in reply to a starting command and the teardown
\* failed twice: the helper answered "what" to BYE and the transport's Close
\* failed.  The error returned reports all three.
C30_Witness ==
    /\ pc = "failed"
    /\ Len(log) = 7
    /\ IsCommandWrite(log[3])
    /\ IsRead(log[4]) /\ log[4].data = <<69, 82, 82, 32, 53, 32, 120>>
    /\ IsWrite(log[5], BYE)
    /\ IsRead(log[6]) /\ log[6].data = <<119, 104, 97, 116>>
    /\ log[7].op = "Close" /\ ~log[7].ok
    /\ Reports(ret.err, [kind |-> "assuan", Code |-> <<53>>, Description |-> <<120>>])
    /\ Reports(ret.err, newUnexpectedResponseError(<<119, 104, 97, 116>>))
    /\ Reports(ret.err, TransportError("Close"))

\* The greeting was "what" and the teardown succeeded: NewClient returned
\* the unexpected-response error alone.
C30_WitnessCleanTeardown ==
    /\ pc = "failed"
    /\ Len(log) = 5
    /\ IsRead(log[2]) /\ log[2].data = <<119, 104, 97, 116>>
    /\ IsWrite(log[3], BYE) /\ log[3].ok
    /\ IsRead(log[4]) /\ isOK(log[4].data)
    /\ log[5].op = "Close" /\ log[5].ok
    /\ ret.err = newUnexpectedResponseError(<<119, 104, 97, 116>>)

\* The entries of log that write BYE.
ByeWrites == {b \in 1..Len(log) : IsWrite(log[b], BYE)}

\* C31: a NewClient whose handshake fails after the transport started tears
\* down with the whole Close sequence: it writes BYE once, right after the
\* operation that failed the handshake; when that write succeeded it reads
\* the reply (skipped lines first, then one line or a read error), when it
\* failed it reads nothing; the transport's Close comes only after that, as
\* the last operation, and never without a BYE write before it.
C31_Teardown ==
    InNewClient =>
      /\ \A i \in 1..Len(log) : log[i].op = "Close" =>
            /\ i = Len(log)
            /\ \E b \in ByeWrites : b < i
      /\ \A b \in ByeWrites :
            /\ b >= 3
            /\ NotOKError(log[b - 1]) # NoError
            /\ ~(IsRead(log[b - 1]) /\ isOK(log[b - 1].data))
            /\ \A k \in (b + 1)..Len(log) : log[k].op \in {"ReadLine", "Close"}
            /\ ~log[b].ok => (b < Len(log) => log[b + 1].op = "Close")
            /\ log[b].ok => (b < Len(log) => log[b + 1].op = "ReadLine")
      /\ Cardinality(ByeWrites) <= 1
      /\ (pc = "failed" /\ log[1].ok) =>
            /\ Cardinality(ByeWrites) = 1
            /\ Last(log).op = "Close"
            /\ \A b \in ByeWrites :
                  /\ log[b].ok <=> Len(log) > b + 1
                  /\ \A k \in (b + 1)..(Len(log) - 2) : IsSkipped(log[k])
                  /\ log[b].ok => ~IsSkipped(log[Len(log) - 1])

\* The read of the greeting failed and then the write of BYE failed:
\* NewClient called the transport's Close right after it, reading nothing.
C31_Witness ==
    /\ pc = "failed"
    /\ Len(log) = 4
    /\ IsFailedRead(log[2])
    /\ IsWrite(log[3], BYE) /\ ~log[3].ok
    /\ log[4].op = "Close"

\* A starting command was answered "what": NewClient wrote BYE, skipped a
\* comment, read the reply OK and then called the transport's Close.
C31_WitnessFull ==
    /\ pc = "failed"
    /\ Len(log) = 8
    /\ IsCommandWrite(log[3])
    /\ IsRead(log[4]) /\ log[4].data = <<119, 104, 97, 116>>
    /\ IsWrite(log[5], BYE) /\ log[5].ok
    /\ IsSkipped(log[6])
    /\ IsRead(log[7]) /\ isOK(log[7].data)
    /\ log[8].op = "Close"

\* C32: when the transport's Start fails, NewClient returns the start error
\* and Start stays its only transport operation: no line is read, none is
\* written (no BYE) and the transport's Close is not called.
C32_StartFails ==
    (log # <<>> /\ log[1].op = "Start" /\ ~log[1].ok) =>
       /\ Len(log) = 1
       /\ pc = "failed"
       /\ ret.op = "NewClient"
       /\ ret.err = [kind |-> "transport", op |-> "Start"]
       /\ Count("ReadLine") = 0 /\ Count("Write") = 0 /\ Count("Close") = 0

\* Start failed for a client given a binary name, arguments and starting
\* commands: NewClient returned the start error, nothing else done.
C32_Witness ==
    /\ pc = "failed"
    /\ log = <<EvStart(PinentryB, << <<45, 97>>, <<45, 98>>, DebugArg, NoGlobalGrabArg >>, FALSE)>>
    /\ Len(c.commands) = 3
    /\ ret.err = TransportError("Start")

\* The entries of log that are reads of a data line.
DataReads == {i \in 1..Len(log) : IsRead(log[i]) /\ HasPrefix(log[i].data, <<68, 32>>)}

\* The greatest element of a set of numbers that is not empty.
Greatest(S) == CHOOSE m \in S : \A n \in S : n <= m

\* What follows "D " in the data line of the entry i of log, decoded.
PayloadOf(i) == Decoded(SubSeq(log[i].data, 3, Len(log[i].data)), 1)

\* C33: the PIN a successful GetPIN returns comes from data lines alone: it
\* is empty when no data line was read before OK, whatever quality inquiries
\* were read and answered, and otherwise it is the decoded payload of the
\* last data line read, not of an inquiry and not several payloads joined.
C33_PINFromData ==
    (Returned("GetPIN") /\ ret.err = [kind |-> "nil"]) =>
       IF DataReads = {}
       THEN ret.val.PIN = <<>>
       ELSE ret.val.PIN = PayloadOf(Greatest(DataReads))

\* GetPIN read D abc and D %25 and then OK: the PIN is "%".
C33_Witness ==
    /\ Returned("GetPIN")
    /\ Len(log) = 4
    /\ IsRead(log[2]) /\ log[2].data = <<68, 32, 97, 98, 99>>
    /\ IsRead(log[3]) /\ log[3].data = <<68, 32, 37, 50, 53>>
    /\ IsRead(log[4]) /\ isOK(log[4].data)
    /\ ret.val.PIN = <<37>>

\* GetPIN answered two inquiries about the candidate aA, read no data line
\* and then OK: the PIN is empty.
C33_WitnessInquiries ==
    /\ Returned("GetPIN")
    /\ ret.err = NoError
    /\ DataReads = {}
    /\ Cardinality({i \in 1..Len(log) : log[i].op = "qualityFunc"
                                          /\ log[i].data[1] = <<97, 65>>}) = 2
    /\ ret.val.PIN = <<>>

\* GetPIN read D abc, then an inquiry about aA, then OK: the PIN is abc.
C33_WitnessDataThenInquiry ==
    /\ Returned("GetPIN")
    /\ ret.err = NoError
    /\ IsRead(log[2]) /\ log[2].data = <<68, 32, 97, 98, 99>>
    /\ IsInquiry(3)
    /\ ret.val.PIN = <<97, 98, 99>>

\* The line was read in the call of log, as a line readLine returns.
WasRead(line) == \E i \in 1..Len(log) : IsRead(log[i]) /\ log[i].data = line

\* The result of a GetPIN call as the lines read in that call alone give it:
\* empty on an error, otherwise the payload of the last data line and the
\* flags of the status lines read.
ResultOfCall ==
    IF ret.err # [kind |-> "nil"]
    THEN [PIN |-> <<>>, PasswordFromCache |-> FALSE, PINRepeated |-> FALSE]
    ELSE [PIN |-> IF DataReads = {} THEN <<>> ELSE PayloadOf(Greatest(DataReads)),
          PasswordFromCache |-> WasRead(StatusFromCache),
          PINRepeated |-> WasRead(StatusRepeated)]

\* C34: each GetPIN call starts from an empty result: when the call begins
\* its result is empty whatever the call before returned, and what it
\* returns is given by the lines read during the call alone, so a PIN or a
\* flag that an earlier GetPIN call on the client returned does not appear in
\* the result of a later call that did not read it.
C34_FreshResult ==
    /\ pc = "getpin_write" =>
          result = [PIN |-> <<>>, PasswordFromCache |-> FALSE, PINRepeated |-> FALSE]
    /\ Returned("GetPIN") => ret.val = ResultOfCall

\* A GetPIN call returned a PIN or a flag, and the GetPIN call after it read
\* OK alone: it returned the empty result.
C34_Witness ==
    /\ Returned("GetPIN")
    /\ previous = "GetPIN"
    /\ Len(log) = 2
    /\ IsRead(log[2]) /\ isOK(log[2].data)
    /\ ret.err = NoError
    /\ ret.val = ZeroResult

\* After a GetPIN call that returned a PIN or a flag, a GetPIN call read
\* S PIN_REPEATED and OK: PINRepeated is the one thing set in its result.
C34_WitnessOwnLines ==
    /\ Returned("GetPIN")
    /\ previous = "GetPIN"
    /\ Len(log) = 3
    /\ IsRead(log[2]) /\ log[2].data = StatusRepeated
    /\ ret.val = GetPINResult(<<>>, FALSE, TRUE)

\* The options of opts that add a starting command, in order.
CommandOptions(opts) ==
    LET AddsCommand(o) == o.option \in {"WithCommand", "WithDesc", "WithQualityBar"}
    IN  SelectSeq(opts, AddsCommand)

\* WithQualityBar is among the options opts.
HasQualityBar(opts) == \E k \in 1..Len(opts) : opts[k].option = "WithQualityBar"

\* "SETQUALITYBAR"
SetQualityBarLine == <<83, 69, 84, 81, 85, 65, 76, 73, 84, 89, 66, 65, 82>>

C35_WitnessHandshake ==
    /\ Returned("NewClient")
    /\ HasQualityBar(arg)
    /\ Len(CommandWrites) = 3
    /\ CommandWrites[2].data = SetQualityBarLine \o <<10>>
    /\ c.qualityFunc = "custom"

\* The command line with which the operation op begins.
BeginsWith(op, e) ==
    /\ e.op = "Write"
    /\ CASE op = "GetPIN"          -> IsWrite(e, GETPIN)
         [] op = "Message"         -> IsWrite(e, MESSAGE)
         [] op = "Confirm"         -> HasPrefix(e.data, CONFIRM)
         [] op = "ClearPassphrase" -> HasPrefix(e.data, CLEARPASSPHRASE)
         [] op = "Close"           -> IsWrite(e, BYE)
         [] OTHER                  -> FALSE

\* C36: the client keeps no closed state.  A call of Close that follows a
\* call of Close on the same client writes BYE and calls the transport's
\* Close once more, and GetPIN, Confirm, Message or ClearPassphrase called
\* after Close begins with the write of its command: no call returns without
\* having gone to the transport.
C36_NoClosedState ==
    previous = "Close" =>
       /\ pc = "ready" =>
             /\ log # <<>>
             /\ BeginsWith(ret.op, log[1])
       /\ Returned("Close") =>
             /\ Count("Write") = 1
             /\ Count("Close") = 1
             /\ Last(log).op = "Close"
       /\ (InOperation /\ log # <<>>) =>
             /\ log[1].op = "Write"
             /\ pc = "ready" => (log[1].ok \/ ret.err = [kind |-> "transport", op |-> "Write"])

\* Close was called after Close: it wrote BYE, read OK and called the
\* transport's Close again.
C36_Witness ==
    /\ Returned("Close")
    /\ previous = "Close"
    /\ Len(log) = 3
    /\ IsWrite(log[1], BYE) /\ log[1].ok
    /\ IsRead(log[2]) /\ isOK(log[2].data)
    /\ log[3].op = "Close"

\* Message was called after Close: it wrote MESSAGE and read the reply.
C36_WitnessOperation ==
    /\ Returned("Message")
    /\ previous = "Close"
    /\ Len(log) = 2
    /\ IsWrite(log[1], MESSAGE) /\ log[1].ok
    /\ log[2].op = "ReadLine"

\* The decimal writing of the whole numbers -2 .. 2.
Written(n) ==
    CASE n = -2 -> <<45, 50>>
      [] n = -1 -> <<45, 49>>
      [] n = 0  -> <<48>>
      [] n = 1  -> <<49>>
      [] n = 2  -> <<50>>

\* n is d divided by one second (1000000000 nanoseconds) with the fraction
\* discarded: what is left of d is less than a second and of the sign of d.
IsWholeSeconds(n, d) ==
    IF d >= 0
    THEN n >= 0 /\ d - n * 1000000000 \in 0..999999999
    ELSE n <= 0 /\ n * 1000000000 - d \in 0..999999999

\* C37: WithTimeout(d) adds the one starting command SETTIMEOUT <n>, n being
\* d divided by one second with the fraction discarded: one second gives
\* SETTIMEOUT 1, whole seconds are sent as they are, and a positive duration
\* of less than a second gives SETTIMEOUT 0.
C37_Timeout ==
    pc = "timeout" =>
      /\ Len(c.commands) = 1
      /\ \E n \in -2..2 :
            /\ IsWholeSeconds(n, ret.val)
            /\ c.commands[1] = <<83, 69, 84, 84, 73, 77, 69, 79, 85, 84, 32>> \o Written(n)
      /\ ret.val = 1000000000 =>
            c.commands[1] = <<83, 69, 84, 84, 73, 77, 69, 79, 85, 84, 32, 49>>
      /\ (ret.val > 0 /\ ret.val < 1000000000) =>
            c.commands[1] = <<83, 69, 84, 84, 73, 77, 69, 79, 85, 84, 32, 48>>

\* WithTimeout of 999999999 nanoseconds added SETTIMEOUT 0.
C37_Witness ==
    /\ pc = "timeout"
    /\ ret.val = 999999999
    /\ c.commands = << <<83, 69, 84, 84, 73, 77, 69, 79, 85, 84, 32, 48>> >>

\* WithTimeout of one second added SETTIMEOUT 1.
C37_WitnessSecond ==
    /\ pc = "timeout"
    /\ ret.val = 1000000000
    /\ c.commands = << <<83, 69, 84, 84, 73, 77, 69, 79, 85, 84, 32, 49>> >>

\* WithTimeout of minus one and a half seconds added SETTIMEOUT -1.
C37_WitnessNegative ==
    /\ pc = "timeout"
    /\ ret.val = -1500000000
    /\ c.commands = << <<83, 69, 84, 84, 73, 77, 69, 79, 85, 84, 32, 45, 49>> >>

=============================================================================
